---------------------------- MODULE Spec2Model ----------------------------
(***************************************************************************)
(* Model of the Laue indexing pipeline of pymicro (pymicro/xray/laue.py):  *)
(* the consensus poller (poll_system, confidence_index), the triplet       *)
(* indexer (triplet_indexing, identify_hkl_from_list, index), the          *)
(* diffraction model (diffracted_vector, diffracted_intensity), the        *)
(* pattern renderer (compute_Laue_pattern) and the gnomonic projections.   *)
(*                                                                         *)
(* Conventions.  Python lists are TLA+ sequences; the values stored in     *)
(* them keep Python's 0-based indices and are read with At(s, k).          *)
(* Angles are integers: misorientations in degrees, inter-spot and         *)
(* inter-plane angles in hundredths of a degree.  A float quotient a / b   *)
(* is kept as the pair <<a, b>>.                                           *)
(***************************************************************************)
EXTENDS Integers, Sequences, FiniteSets, TLC

\* ---------------------------------------------------------------- bounds
MaxCand == 5      \* longest candidate list handed to poll_system
MaxPerm == 3      \* longest candidate list polled in two orders
MaxDetectors == 3 \* most detectors added to one experiment
MaxEnergy == 5    \* energies handed to XraySource range over -MaxEnergy..MaxEnergy
MaxMiller == 2    \* max_miller ranges over 0..MaxMiller
MaxRot == 3       \* candidate orientations are rotations by 0..MaxRot degrees
MaxTol == 2       \* dis_tol ranges over 0..MaxTol degrees
MaxSpots == 4     \* most experimental spots handed to index
MaxPlanes == 3    \* most candidate planes handed to index
MaxTheta == 4     \* glancing and Bragg angles range over -MaxTheta..MaxTheta
MaxMinTheta == 2  \* min_theta ranges over 0..MaxMinTheta
MaxQ == 4         \* tabulated q range over 1..MaxQ, queries over 0..MaxQ+1
MaxPoints == 2    \* most points handed to the gnomonic projection of points
MaxCoord == 1     \* transverse coordinates range over 0..MaxCoord
GnomSize == 3     \* the gnomonic image is GnomSize x GnomSize pixels
MaxRef == 2       \* ref_pos[1], ref_pos[2] range over -MaxRef..MaxRef pixels
MaxHits == 2      \* most hit pixels (value 255) of the detector image
MaxLauePlanes == 2  \* longest plane list handed to compute_Laue_pattern
DetSize == 3      \* pixels of the detector row the pattern is followed on

VARIABLES
    \* poll_system
    g_list,                    \* the candidate orientation matrices
    dis_tol,                   \* angular tolerance (degrees)
    poll_i,                    \* the outer loop's i (next candidate)
    solution_indices,          \* per seed: index of its candidate in g_list
    votes,                     \* per seed: vote count
    vote_index,                \* per candidate: index of its seed
    final_orientation_matrix,  \* returned winners
    result_vote,               \* returned vote number
    ci,                        \* returned confidence index <<num, den>>
    vote_field,                \* returned per-input vote field
    poll_pc,                   \* "idle" | "loop" | "done" | "IndexError"
    \* index and triplet_indexing
    n_spots,                   \* len(hkl_normals)
    spot_angle,                \* angle between hkl_normals[i] and [j], i < j
    n_planes,                  \* len(hkl_planes)
    plane_angle,               \* angle between the normals of planes i < j
    tol_angle,                 \* angle tolerance, hundredths of a degree
    angles_exp,                \* the n x n upper-triangular angle matrix
    angles_th,                 \* the sorted table of (angle, hkl1, hkl2)
    triplet,                   \* <<ti, tj, tk>> to visit next, <<>> at the end
    nombre_triplet,            \* triplets visited so far
    OP_indexed,                \* the accepted entries
    OP_rows,                   \* printed with each accepted entry: [ci, cj, ck]
    g_indexation,              \* the candidates handed to poll_system
    index_ret,                 \* what index returns
    index_pc,                  \* "idle" | "tables" | "triplets" | "poll"
                               \* | "done" | "IndexError" | "UnboundLocalError"
    \* two consecutive calls of poll_system by one caller
    run,                       \* 0 (no such caller), 1 or 2
    first_run,                 \* what the first call returned, <<>> before
    \* diffracted_vector
    theta,                     \* glancing angle of select_lambda, 1e-6 rad
    min_theta,                 \* min_theta, 1e-4 degree
    bragg_angle,               \* hkl.bragg_angle(the_energy), 1e-6 rad
    K,                         \* the returned value, by kind: "unset",
                               \* "None" or "vector"
    dv_pc,                     \* "idle" | "call" | "return" | "AssertionError"
    \* diffracted_intensity
    scat_data,                 \* the table, rows [q, f]
    q,                         \* 1 / (2 * d_hkl), the query
    index,                     \* the row used for the atomic factor
    I,                         \* the returned intensity <<num, den>>
    di_pc,                     \* "idle" | "call" | "return"
    \* gnomonic_projection_point and gnomonic_projection_point2
    data,                      \* the (n, 3) input points
    OC,                        \* the projection center, <<>> for None
    data_gp,                   \* the (n, 3) result
    gp_i,                      \* the loop's i
    gp_pc,                     \* "idle" | "call" | "loop" | "return"
    \* gnomonic_projection
    ref_pos,                   \* detector.ref_pos[1], [2] in gnom pixels
    ug_px,                     \* projected u of each hit pixel
    vg_px,                     \* projected v of each hit pixel
    gnom_pc,                   \* "idle" | "call" | "return" | an exception
    \* compute_Laue_pattern
    hkl_planes,                \* the planes, with what the geometry gives
    spectrum,                  \* a sequence of energies, <<>> for None
    color_field,               \* 'constant', 'energy', 'intensity' or other
    r_spot,                    \* half size of a spot
    detector_data,             \* detector.data: pixel -> value
    clp_i,                     \* position in hkl_planes
    clp_pc,                    \* "idle" | "loop" | "return" | an exception
    \* Experiment and ForwardSimulation (experiment.py)
    detectors,                 \* self.detectors: per detector its data
    active_detector_id,        \* self.active_detector_id
    fs_exp,                    \* fs.exp: "own" or "self"
    exp_call,                  \* the last call on the experiment, its
                               \* arguments and what it did and returned
    \* XraySource (experiment.py)
    min_energy,                \* self._min_energy, <<>> for None
    max_energy,                \* self._max_energy, <<>> for None
    energy_call,               \* the arguments of the last set_energy_range
    \* build_list
    max_miller,                \* max_miller
    extinction,                \* "None", "FCC" or "BCC"
    hklplanes,                 \* the list being built
    next_hkl,                  \* <<h, k, l>> of the next pass, <<>> at the end
    build_pc                   \* "idle" | "loop" | "return"

pollVars == <<g_list, dis_tol, poll_i, solution_indices, votes, vote_index,
              final_orientation_matrix, result_vote, ci, vote_field, poll_pc>>

indexVars == <<n_spots, spot_angle, n_planes, plane_angle, tol_angle,
               angles_exp, angles_th, triplet, nombre_triplet, OP_indexed,
               OP_rows, g_indexation, index_ret, index_pc>>

twiceVars == <<run, first_run>>

dvVars == <<theta, min_theta, bragg_angle, K, dv_pc>>

diVars == <<scat_data, q, index, I, di_pc>>

gpVars == <<data, OC, data_gp, gp_i, gp_pc>>

gnomVars == <<ref_pos, ug_px, vg_px, gnom_pc>>

clpVars == <<hkl_planes, spectrum, color_field, r_spot, detector_data, clp_i,
             clp_pc>>

laueVars == <<twiceVars, dvVars, diVars, gpVars, gnomVars, clpVars>>

experimentVars == <<detectors, active_detector_id, fs_exp, exp_call>>

sourceVars == <<min_energy, max_energy, energy_call>>

buildVars == <<max_miller, extinction, hklplanes, next_hkl, build_pc>>

expVars == <<experimentVars, sourceVars, buildVars>>

vars == <<pollVars, indexVars, laueVars, expVars>>

\* ------------------------------------------------------------- helpers
At(s, k) == s[k + 1]

Abs(x) == IF x < 0 THEN -x ELSE x

RECURSIVE SumSeq(_)
SumSeq(s) == IF s = <<>> THEN 0 ELSE Head(s) + SumSeq(Tail(s))

RECURSIVE MaxSeq(_)
MaxSeq(s) ==
    IF Len(s) = 1 THEN s[1]
    ELSE LET m == MaxSeq(Tail(s)) IN IF Head(s) >= m THEN Head(s) ELSE m

\* list.index(v): 0-based position of the first occurrence of v
RECURSIVE IndexOf(_, _)
IndexOf(s, v) == IF Head(s) = v THEN 0 ELSE 1 + IndexOf(Tail(s), v)

\* np.argwhere(s == v).flatten(): the 0-based positions of v, ascending
RECURSIVE ArgWhereEq(_, _, _)
ArgWhereEq(s, v, k) ==
    IF k >= Len(s) THEN <<>>
    ELSE (IF At(s, k) = v THEN <<k>> ELSE <<>>) \o ArgWhereEq(s, v, k + 1)

\* --------------------------------------------------- external collaborator
\* Orientation.misorientation_angle_from_delta(np.dot(g, g_ref.T)) for two
\* rotations about one axis, by g and g_ref degrees: the angle of the
\* relative rotation.
MisorientationAngle(g, g_ref) == Abs(g - g_ref)

AllCandidates == 0..MaxRot

\* ----------------------------------------------------------- poll_system
\* A poller whose inner loop does not stop at the first seed within
\* tolerance: the last such seed wins.
RECURSIVE LastMatch(_, _, _, _, _)
LastMatch(gl, seeds, tol, g, j) ==
    IF j >= Len(seeds) THEN -1
    ELSE LET later == LastMatch(gl, seeds, tol, g, j + 1) IN
         IF later >= 0 THEN later
         ELSE IF MisorientationAngle(g, At(gl, At(seeds, j))) <= tol THEN j
         ELSE -1

\* The inner loop  for j in range(len(solution_indices)): the first j whose
\* seed is within tolerance of g, or -1 when the loop reaches its last j
\* without a match.
RECURSIVE FirstMatch(_, _, _, _, _)
FirstMatch(gl, seeds, tol, g, j) ==
    IF j >= Len(seeds) THEN -1
    ELSE IF MisorientationAngle(g, At(gl, At(seeds, j))) <= tol THEN j
    ELSE FirstMatch(gl, seeds, tol, g, j + 1)

\* A loop body whose new seed starts without its own vote.
PollCandidateNoSeedVote(st, gl, tol, i) ==
    LET j == FirstMatch(gl, st.solution_indices, tol, At(gl, i), 0) IN
    IF j >= 0
    THEN [solution_indices |-> st.solution_indices,
          votes            |-> [st.votes EXCEPT ![j + 1] = @ + 1],
          vote_index       |-> [st.vote_index EXCEPT ![i + 1] = j]]
    ELSE [solution_indices |-> Append(st.solution_indices, i),
          votes            |-> Append(st.votes, 0),
          vote_index       |-> [st.vote_index EXCEPT ![i + 1] = Len(st.votes)]]

\* One pass of the outer loop body for candidate i on the poll state
\* st = [solution_indices, votes, vote_index].
PollCandidate(st, gl, tol, i) ==
    LET j == FirstMatch(gl, st.solution_indices, tol, At(gl, i), 0) IN
    IF j >= 0
    THEN [solution_indices |-> st.solution_indices,
          votes            |-> [st.votes EXCEPT ![j + 1] = @ + 1],
          vote_index       |-> [st.vote_index EXCEPT ![i + 1] = j]]
    ELSE [solution_indices |-> Append(st.solution_indices, i),
          votes            |-> Append(st.votes, 1),
          vote_index       |-> [st.vote_index EXCEPT ![i + 1] = Len(st.votes)]]

\* A confidence index whose runner-up is the largest vote value strictly
\* below the maximum (every seed holding the maximum is cleared).
confidence_index_distinct(vs) ==
    LET n  == SumSeq(vs)
        v1 == MaxSeq(vs)
        vs2 == [k \in 1..Len(vs) |-> IF vs[k] = v1 THEN 0 ELSE vs[k]]
        v2 == MaxSeq(vs2)
    IN [ci |-> <<v1 - v2, n>>, votes |-> vs2]

\* A confidence index that forgets to clear the winner before looking for
\* the runner-up.
confidence_index_keep(vs) ==
    LET n  == SumSeq(vs)
        v1 == MaxSeq(vs)
        v2 == MaxSeq(vs)
    IN [ci |-> <<v1 - v2, n>>, votes |-> vs]

\* confidence_index(votes): the value returned and the list as the call
\* leaves it (the first maximum overwritten by 0).
confidence_index(vs) ==
    LET n  == SumSeq(vs)
        v1 == MaxSeq(vs)
        vs2 == [vs EXCEPT ![IndexOf(vs, v1) + 1] = 0]
        v2 == MaxSeq(vs2)
    IN [ci |-> <<v1 - v2, n>>, votes |-> vs2]

\* A winner selection that keeps only the first maximum (np.argmax).
IndexResultFirst(vs) == <<IndexOf(vs, MaxSeq(vs))>>

\* A winner selection that keeps only the last maximum.
IndexResultLast(vs) ==
    LET ir == ArgWhereEq(vs, MaxSeq(vs), 0) IN <<ir[Len(ir)]>>

\* index_result = np.argwhere(votes == np.amax(votes)).flatten()
IndexResult(vs) == ArgWhereEq(vs, MaxSeq(vs), 0)

\* final_orientation_matrix: g_list[solution_indices[index_result[n]]]
FinalOrientationMatrix(gl, seeds, vs) ==
    LET ir == IndexResult(vs) IN
    [n \in 1..Len(ir) |-> At(gl, At(seeds, ir[n]))]

\* vote_field = [votes[i] for i in vote_index]
VoteField(vs, vi) == [k \in 1..Len(vi) |-> At(vs, vi[k])]

\* The variables of a function that is not called.
TwiceIdle == run = 0 /\ first_run = <<>>

DvIdle ==
    /\ theta = 0
    /\ min_theta = 0
    /\ bragg_angle = 0
    /\ K = [kind |-> "unset"]
    /\ dv_pc = "idle"

DiIdle ==
    /\ scat_data = <<>>
    /\ q = 0
    /\ index = 0
    /\ I = <<0, 0>>
    /\ di_pc = "idle"

GpIdle ==
    /\ data = <<>>
    /\ OC = <<>>
    /\ data_gp = <<>>
    /\ gp_i = 0
    /\ gp_pc = "idle"

GnomIdle ==
    /\ ref_pos = <<0, 0>>
    /\ ug_px = <<>>
    /\ vg_px = <<>>
    /\ gnom_pc = "idle"

ClpIdle ==
    /\ hkl_planes = <<>>
    /\ spectrum = <<>>
    /\ color_field = "constant"
    /\ r_spot = 0
    /\ detector_data = <<>>
    /\ clp_i = 0
    /\ clp_pc = "idle"

LaueIdle == TwiceIdle /\ DvIdle /\ DiIdle /\ GpIdle /\ GnomIdle /\ ClpIdle

ExperimentIdle ==
    /\ detectors = <<>>
    /\ active_detector_id = -1
    /\ fs_exp = "own"
    /\ exp_call = [op |-> "idle", sim_type |-> "", flag |-> FALSE,
                   ran |-> "none", ret |-> "None"]

SourceIdle ==
    /\ min_energy = <<>>
    /\ max_energy = <<>>
    /\ energy_call = <<>>

BuildIdle ==
    /\ max_miller = 0
    /\ extinction = "None"
    /\ hklplanes = <<>>
    /\ next_hkl = <<>>
    /\ build_pc = "idle"

ExpIdle == ExperimentIdle /\ SourceIdle /\ BuildIdle

\* The indexer's variables while only poll_system is run.
IndexIdle ==
    /\ n_spots = 0
    /\ spot_angle = <<>>
    /\ n_planes = 0
    /\ plane_angle = <<>>
    /\ tol_angle = 0
    /\ angles_exp = <<>>
    /\ angles_th = <<>>
    /\ triplet = <<>>
    /\ nombre_triplet = 0
    /\ OP_indexed = <<>>
    /\ OP_rows = <<>>
    /\ g_indexation = <<>>
    /\ index_ret = <<>>
    /\ index_pc = "idle"

PollState == [solution_indices |-> solution_indices, votes |-> votes,
              vote_index |-> vote_index]

InitPoll ==
    /\ dis_tol \in 0..MaxTol
    /\ \E n \in 0..MaxCand : g_list \in [1..n -> AllCandidates]
    /\ poll_i = 0
    /\ solution_indices = <<0>>
    /\ votes = <<0>>
    /\ vote_index = [k \in 1..Len(g_list) |-> 0]
    /\ final_orientation_matrix = <<>>
    /\ result_vote = 0
    /\ ci = <<0, 0>>
    /\ vote_field = <<>>
    /\ poll_pc = "loop"
    /\ IndexIdle
    /\ LaueIdle
    /\ ExpIdle

\* loop body, branch  angle <= dis_tol_rad  (lines 583-590)
PollVote ==
    /\ poll_pc = "loop"
    /\ poll_i < Len(g_list)
    /\ FirstMatch(g_list, solution_indices, dis_tol, At(g_list, poll_i), 0) >= 0
    /\ LET st == PollCandidate(PollState, g_list, dis_tol, poll_i) IN
         /\ solution_indices' = st.solution_indices
         /\ votes' = st.votes
         /\ vote_index' = st.vote_index
    /\ poll_i' = poll_i + 1
    /\ UNCHANGED <<g_list, dis_tol, final_orientation_matrix, result_vote, ci,
                   vote_field, poll_pc, indexVars>>
    /\ UNCHANGED <<laueVars, expVars>>

\* loop body, branch  j == len(solution_indices) - 1  (lines 591-598)
PollNewSeed ==
    /\ poll_pc = "loop"
    /\ poll_i < Len(g_list)
    /\ FirstMatch(g_list, solution_indices, dis_tol, At(g_list, poll_i), 0) < 0
    /\ LET st == PollCandidate(PollState, g_list, dis_tol, poll_i) IN
         /\ solution_indices' = st.solution_indices
         /\ votes' = st.votes
         /\ vote_index' = st.vote_index
    /\ poll_i' = poll_i + 1
    /\ UNCHANGED <<g_list, dis_tol, final_orientation_matrix, result_vote, ci,
                   vote_field, poll_pc, indexVars>>
    /\ UNCHANGED <<laueVars, expVars>>

\* lines 599-615 on a non-empty list
PollReturn ==
    /\ poll_pc = "loop"
    /\ poll_i = Len(g_list)
    /\ Len(g_list) > 0
    /\ final_orientation_matrix' =
           FinalOrientationMatrix(g_list, solution_indices, votes)
    /\ result_vote' = MaxSeq(votes)
    /\ LET c == confidence_index(votes) IN
         /\ ci' = c.ci
         /\ votes' = c.votes
         /\ vote_field' = VoteField(c.votes, vote_index)
    /\ poll_pc' = "done"
    /\ UNCHANGED <<g_list, dis_tol, poll_i, solution_indices, vote_index,
                   indexVars>>
    /\ UNCHANGED <<laueVars, expVars>>

\* lines 599-608 on an empty list: votes = [0], index_result = [0] and
\* g_list[solution_indices[0]] = g_list[0] raises IndexError
PollRaise ==
    /\ poll_pc = "loop"
    /\ poll_i = Len(g_list)
    /\ Len(g_list) = 0
    /\ poll_pc' = "IndexError"
    /\ UNCHANGED <<g_list, dis_tol, poll_i, solution_indices, votes,
                   vote_index, final_orientation_matrix, result_vote, ci,
                   vote_field, indexVars>>
    /\ UNCHANGED <<laueVars, expVars>>

NextPoll == PollVote \/ PollNewSeed \/ PollReturn \/ PollRaise

SpecPoll == InitPoll /\ [][NextPoll]_vars



\* ------------------------------------------------------------ the indexer
tol_disorientation == 1    \* index's default, degrees

\* Angles, in hundredths of a degree: 70.53 and 109.47 are the angles
\* between the {111} plane normals of a cubic lattice.
PlaneAngles == {7053, 10947}
SpotAngles == {7053, 10947}
\* tol_angle: index's default 0.5 and triplet_indexing's default 1.0
TolAngles == {50, 100}

Pairs(n) == {p \in (0..(n - 1)) \X (0..(n - 1)) : p[1] < p[2]}

\* The rows (angle, i, j) in the order lines 636-640 write them.
RECURSIVE RawTable(_, _, _, _)
RawTable(pa, n, i, j) ==
    IF i >= n THEN <<>>
    ELSE IF j >= n THEN RawTable(pa, n, i + 1, i + 2)
    ELSE <<[angle |-> pa[<<i, j>>], hkl1 |-> i, hkl2 |-> j]>>
         \o RawTable(pa, n, i, j + 1)

\* The order of angles_th.sort(order='angle'): by angle, ties by the
\* remaining fields hkl1, hkl2.
RowLess(a, b) ==
    \/ a.angle < b.angle
    \/ a.angle = b.angle /\ a.hkl1 < b.hkl1
    \/ a.angle = b.angle /\ a.hkl1 = b.hkl1 /\ a.hkl2 < b.hkl2

RECURSIVE InsertRow(_, _)
InsertRow(sorted, r) ==
    IF sorted = <<>> THEN <<r>>
    ELSE IF RowLess(r, Head(sorted)) THEN <<r>> \o sorted
    ELSE <<Head(sorted)>> \o InsertRow(Tail(sorted), r)

RECURSIVE SortRows(_)
SortRows(t) ==
    IF t = <<>> THEN <<>>
    ELSE InsertRow(SortRows(SubSeq(t, 1, Len(t) - 1)), t[Len(t)])

\* np.argwhere(abs(angles_th['angle'] - angle_to_match) < tol).flatten()
RECURSIVE Candidates(_, _, _, _)
Candidates(th, angle_to_match, tol, r) ==
    IF r >= Len(th) THEN <<>>
    ELSE (IF Abs(At(th, r).angle - angle_to_match) < tol THEN <<r>> ELSE <<>>)
         \o Candidates(th, angle_to_match, tol, r + 1)

\* identify_hkl_from_list with its first two branches only
IdentifyIdsTwoBranches(hkl_list) ==
    IF At(hkl_list, 1) = At(hkl_list, 2) THEN <<1, 3, 0>>
    ELSE IF At(hkl_list, 1) = At(hkl_list, 3) THEN <<1, 2, 0>>
    ELSE <<>>

\* identify_hkl_from_list: the ids its if/elif chain sets, <<>> when no
\* branch is taken and ids stays unbound.
IdentifyIds(hkl_list) ==
    IF At(hkl_list, 1) = At(hkl_list, 2) THEN <<1, 3, 0>>
    ELSE IF At(hkl_list, 1) = At(hkl_list, 3) THEN <<1, 2, 0>>
    ELSE IF At(hkl_list, 0) = At(hkl_list, 2) THEN <<0, 3, 1>>
    ELSE IF At(hkl_list, 0) = At(hkl_list, 3) THEN <<0, 2, 1>>
    ELSE <<>>

\* return [hkl_list[i] for i in ids]; <<>> stands for the UnboundLocalError
\* of reading ids unbound.
identify_hkl_from_list(hkl_list) ==
    LET ids == IdentifyIds(hkl_list) IN
    [n \in 1..Len(ids) |-> At(hkl_list, ids[n])]

HklList(th, c_i, c_j, c_k) ==
    <<At(th, c_i).hkl1, At(th, c_i).hkl2,
      At(th, c_j).hkl1, At(th, c_j).hkl2,
      At(th, c_k).hkl1, At(th, c_k).hkl2>>

\* len(np.unique(hkl_list))
UniqueCount(hkl_list) == Cardinality({hkl_list[n] : n \in 1..Len(hkl_list)})

\* The body of the innermost loop (lines 506-524): nothing for a skipped
\* combination, else the entry appended, with the rows printed for it.
ComboBody(th, t, c_i, c_j, c_k) ==
    LET hkl_list == HklList(th, c_i, c_j, c_k) IN
    IF UniqueCount(hkl_list) # 3 THEN <<>>
    ELSE LET identified_list == identify_hkl_from_list(hkl_list) IN
         <<[rows |-> <<c_i, c_j, c_k>>,
            unbound |-> identified_list = <<>>,
            full_list |-> <<t[2], t[3], t[1]>> \o identified_list]>>

RECURSIVE LoopCk(_, _, _, _, _)
LoopCk(th, t, c_i, c_j, cks) ==
    IF cks = <<>> THEN <<>>
    ELSE ComboBody(th, t, c_i, c_j, Head(cks)) \o LoopCk(th, t, c_i, c_j, Tail(cks))

RECURSIVE LoopCj(_, _, _, _, _)
LoopCj(th, t, c_i, cjs, cks) ==
    IF cjs = <<>> THEN <<>>
    ELSE LoopCk(th, t, c_i, Head(cjs), cks) \o LoopCj(th, t, c_i, Tail(cjs), cks)

RECURSIVE LoopCi(_, _, _, _, _)
LoopCi(th, t, cis, cjs, cks) ==
    IF cis = <<>> THEN <<>>
    ELSE LoopCj(th, t, Head(cis), cjs, cks) \o LoopCi(th, t, Tail(cis), cjs, cks)

RECURSIVE Reverse(_)
Reverse(sq) == IF sq = <<>> THEN <<>> ELSE Append(Reverse(Tail(sq)), Head(sq))

\* The loops of lines 502-504 run over the candidate rows in descending
\* order.
TripletCombosDescending(th, ae, tol, t) ==
    LoopCi(th, t,
           Reverse(Candidates(th, ae[<<t[1], t[2]>>], tol, 0)),
           Reverse(Candidates(th, ae[<<t[2], t[3]>>], tol, 0)),
           Reverse(Candidates(th, ae[<<t[1], t[3]>>], tol, 0)))

\* Lines 489-524 for the triplet t = <<ti, tj, tk>>: what the three nested
\* loops over the candidate rows of (ti,tj), (tj,tk), (ti,tk) append.
TripletCombos(th, ae, tol, t) ==
    LoopCi(th, t,
           Candidates(th, ae[<<t[1], t[2]>>], tol, 0),
           Candidates(th, ae[<<t[2], t[3]>>], tol, 0),
           Candidates(th, ae[<<t[1], t[3]>>], tol, 0))

\* The next (ti, tj, tk) of the loops of lines 480-485, <<>> after the last.
NextTriplet(t, n) ==
    IF t[3] + 1 < n THEN <<t[1], t[2], t[3] + 1>>
    ELSE IF t[2] + 1 < n - 1 THEN <<t[1], t[2] + 1, t[2] + 2>>
    ELSE IF t[1] + 1 < n - 2 THEN <<t[1] + 1, t[1] + 2, t[1] + 3>>
    ELSE <<>>

\* The combinations appended before the first one that leaves ids unbound.
RECURSIVE UntilUnbound(_)
UntilUnbound(cs) ==
    IF cs = <<>> \/ Head(cs).unbound THEN <<>>
    ELSE <<Head(cs)>> \o UntilUnbound(Tail(cs))

\* transformation_matrix(hkl_plane_1, hkl_plane_2, xyz_normal_1,
\* xyz_normal_2): the matrix is a function of the two planes (by index in
\* hkl_planes) and the two spots (by index in hkl_normals) it is built from.
transformation_matrix(hkl_plane_1, hkl_plane_2, xyz_normal_1, xyz_normal_2) ==
    [hkl_plane_1 |-> hkl_plane_1, hkl_plane_2 |-> hkl_plane_2,
     xyz_normal_1 |-> xyz_normal_1, xyz_normal_2 |-> xyz_normal_2]

\* Lattice.move_rotation_to_FZ(orientation_matrix, crystal_structure)
move_rotation_to_FZ(orientation_matrix) ==
    [fz |-> TRUE, orientation_matrix |-> orientation_matrix]

\* pos with the third construction taken from spots tj, ti in that order
posSwapped == <<<<0, 1, 3, 4>>, <<1, 2, 4, 5>>, <<0, 2, 3, 5>>>>

pos == <<<<0, 1, 3, 4>>, <<1, 2, 4, 5>>, <<2, 0, 5, 3>>>>

\* The inner loop of lines 660-663: orientation_matrix after j = 0, 1, 2.
RECURSIVE OrientationMatrixLoop(_, _, _)
OrientationMatrixLoop(entry, j, orientation_matrix) ==
    IF j >= 3 THEN orientation_matrix
    ELSE OrientationMatrixLoop(entry, j + 1,
             transformation_matrix(At(entry, At(At(pos, j), 2)),
                                   At(entry, At(At(pos, j), 3)),
                                   At(entry, At(At(pos, j), 0)),
                                   At(entry, At(At(pos, j), 1))))

\* lines 656-666 with the un-reduced matrix appended
GIndexationRaw(normal_indexed) ==
    [n \in 1..Len(normal_indexed) |->
        OrientationMatrixLoop(normal_indexed[n], 0, <<>>)]

\* lines 656-666
GIndexation(normal_indexed) ==
    [n \in 1..Len(normal_indexed) |->
        move_rotation_to_FZ(OrientationMatrixLoop(normal_indexed[n], 0, <<>>))]

\* The misorientations poll_system finds between the candidates of index
\* are those of rotations about one axis by these angles (degrees): with
\* same, all candidates are one orientation (the indexing is consistent);
\* otherwise distinct candidates lie further apart than the tolerance.
RECURSIVE FirstIndex(_, _)
FirstIndex(s, v) == IF Head(s) = v THEN 0 ELSE 1 + FirstIndex(Tail(s), v)

OrientationClasses(g, same) ==
    [n \in 1..Len(g) |->
        IF same THEN 0 ELSE (tol_disorientation + 1) * FirstIndex(g, g[n])]

PollIdle ==
    /\ g_list = <<>>
    /\ dis_tol = 0
    /\ poll_i = 0
    /\ solution_indices = <<>>
    /\ votes = <<>>
    /\ vote_index = <<>>
    /\ final_orientation_matrix = <<>>
    /\ result_vote = 0
    /\ ci = <<0, 0>>
    /\ vote_field = <<>>
    /\ poll_pc = "idle"

InitIndex ==
    /\ n_spots \in 0..MaxSpots
    /\ spot_angle \in [Pairs(n_spots) -> SpotAngles]
    /\ n_planes \in 0..MaxPlanes
    /\ plane_angle \in [Pairs(n_planes) -> PlaneAngles]
    /\ tol_angle \in TolAngles
    /\ angles_exp = <<>>
    /\ angles_th = <<>>
    /\ triplet = <<>>
    /\ nombre_triplet = 0
    /\ OP_indexed = <<>>
    /\ OP_rows = <<>>
    /\ g_indexation = <<>>
    /\ index_ret = <<>>
    /\ index_pc = "tables"
    /\ PollIdle
    /\ LaueIdle
    /\ ExpIdle

\* index, lines 620-651, and the entry of triplet_indexing, lines 478-480
IndexTables ==
    /\ index_pc = "tables"
    /\ angles_exp' = [p \in (0..(n_spots - 1)) \X (0..(n_spots - 1)) |->
                        IF p[1] < p[2] THEN spot_angle[p] ELSE 0]
    /\ angles_th' = SortRows(RawTable(plane_angle, n_planes, 0, 1))
    /\ triplet' = IF n_spots >= 3 THEN <<0, 1, 2>> ELSE <<>>
    /\ index_pc' = "triplets"
    /\ UNCHANGED <<n_spots, spot_angle, n_planes, plane_angle, tol_angle,
                   nombre_triplet, OP_indexed, OP_rows, g_indexation,
                   index_ret, pollVars>>
    /\ UNCHANGED <<laueVars, expVars>>

\* triplet_indexing, lines 486-524, for one (ti, tj, tk)
TripletVisit ==
    /\ index_pc = "triplets"
    /\ triplet # <<>>
    /\ LET combos == TripletCombos(angles_th, angles_exp, tol_angle, triplet)
           done == UntilUnbound(combos)
       IN /\ OP_indexed' = OP_indexed \o [n \in 1..Len(done) |-> done[n].full_list]
          /\ OP_rows' = OP_rows \o [n \in 1..Len(done) |-> done[n].rows]
          /\ IF Len(done) < Len(combos)
             THEN /\ index_pc' = "UnboundLocalError"
                  /\ triplet' = triplet
             ELSE /\ index_pc' = "triplets"
                  /\ triplet' = NextTriplet(triplet, n_spots)
    /\ nombre_triplet' = nombre_triplet + 1
    /\ UNCHANGED <<n_spots, spot_angle, n_planes, plane_angle, tol_angle,
                   angles_exp, angles_th, g_indexation, index_ret, pollVars>>
    /\ UNCHANGED <<laueVars, expVars>>

\* index, lines 652-667 up to the call of poll_system, and lines 568-572
\* of poll_system
IndexCallPoll ==
    /\ index_pc = "triplets"
    /\ triplet = <<>>
    /\ g_indexation' = GIndexation(OP_indexed)
    /\ \E same \in BOOLEAN :
         g_list' = OrientationClasses(g_indexation', same)
    /\ dis_tol' = tol_disorientation
    /\ poll_i' = 0
    /\ solution_indices' = <<0>>
    /\ votes' = <<0>>
    /\ vote_index' = [k \in 1..Len(OP_indexed) |-> 0]
    /\ poll_pc' = "loop"
    /\ index_pc' = "poll"
    /\ UNCHANGED <<n_spots, spot_angle, n_planes, plane_angle, tol_angle,
                   angles_exp, angles_th, triplet, nombre_triplet, OP_indexed,
                   OP_rows, index_ret, final_orientation_matrix, result_vote,
                   ci, vote_field>>
    /\ UNCHANGED <<laueVars, expVars>>

\* index, lines 667-681, once poll_system has returned:
\* final_orientation_matrix == 0 is False for a list, so the else branch
\* returns (final_orientation_matrix, ci)
IndexReturn ==
    /\ index_pc = "poll"
    /\ poll_pc = "done"
    /\ index_ret' = [final_orientation_matrix |-> final_orientation_matrix,
                     ci |-> ci]
    /\ index_pc' = "done"
    /\ UNCHANGED <<n_spots, spot_angle, n_planes, plane_angle, tol_angle,
                   angles_exp, angles_th, triplet, nombre_triplet, OP_indexed,
                   OP_rows, g_indexation, pollVars>>
    /\ UNCHANGED <<laueVars, expVars>>

\* index, line 667, when poll_system raises: the exception leaves index
IndexRaise ==
    /\ index_pc = "poll"
    /\ poll_pc = "IndexError"
    /\ index_pc' = "IndexError"
    /\ UNCHANGED <<n_spots, spot_angle, n_planes, plane_angle, tol_angle,
                   angles_exp, angles_th, triplet, nombre_triplet, OP_indexed,
                   OP_rows, g_indexation, index_ret, pollVars>>
    /\ UNCHANGED <<laueVars, expVars>>

NextIndex ==
    \/ IndexTables
    \/ TripletVisit
    \/ IndexCallPoll
    \/ PollVote
    \/ PollNewSeed
    \/ PollReturn
    \/ PollRaise
    \/ IndexReturn
    \/ IndexRaise

SpecIndex == InitIndex /\ [][NextIndex]_vars

\* ------------------------------------------- poll_system called twice
\* A caller that runs poll_system on a list and then runs it again on
\* the same list with the same tolerance.

\* The lists a call would start from if those of the previous call (the
\* votes confidence_index wrote to among them) were kept.
StaleLists == [solution_indices |-> solution_indices, votes |-> votes]

\* lines 568-569: every call builds its own solution_indices and votes
EntryLists == [solution_indices |-> <<0>>, votes |-> <<0>>]

InitPollTwice ==
    /\ dis_tol \in 0..MaxTol
    /\ \E n \in 0..MaxCand : g_list \in [1..n -> AllCandidates]
    /\ poll_i = 0
    /\ solution_indices = <<0>>
    /\ votes = <<0>>
    /\ vote_index = [k \in 1..Len(g_list) |-> 0]
    /\ final_orientation_matrix = <<>>
    /\ result_vote = 0
    /\ ci = <<0, 0>>
    /\ vote_field = <<>>
    /\ poll_pc = "loop"
    /\ IndexIdle
    /\ run = 1
    /\ first_run = <<>>
    /\ DvIdle /\ DiIdle /\ GpIdle /\ GnomIdle /\ ClpIdle
    /\ ExpIdle

\* The first call is over (returned or raised); the caller keeps what it
\* returned and calls again: lines 568-572 of the second call.
PollAgain ==
    /\ run = 1
    /\ poll_pc \in {"done", "IndexError"}
    /\ first_run' = [outcome |-> poll_pc,
                     final_orientation_matrix |-> final_orientation_matrix,
                     result_vote |-> result_vote,
                     ci |-> ci,
                     vote_field |-> vote_field]
    /\ run' = 2
    /\ poll_i' = 0
    /\ solution_indices' = EntryLists.solution_indices
    /\ votes' = EntryLists.votes
    /\ vote_index' = [k \in 1..Len(g_list) |-> 0]
    /\ poll_pc' = "loop"
    /\ UNCHANGED <<g_list, dis_tol, final_orientation_matrix, result_vote, ci,
                   vote_field, indexVars>>
    /\ UNCHANGED <<dvVars, diVars, gpVars, gnomVars, clpVars, expVars>>

NextPollTwice ==
    \/ PollVote
    \/ PollNewSeed
    \/ PollReturn
    \/ PollRaise
    \/ PollAgain

SpecPollTwice == InitPollTwice /\ [][NextPollTwice]_vars

\* --------------------------- poll_system on one list in two orders
\* The caller polls g_list, keeps what the call returned, and polls the
\* same candidates again in another order.
Reordered(gl, perm) == [k \in 1..Len(gl) |-> gl[perm[k]]]

Reorderings(n) ==
    {perm \in [1..n -> 1..n] : \A a, b \in 1..n : a # b => perm[a] # perm[b]}

InitPollPerm ==
    /\ dis_tol \in 0..MaxTol
    /\ \E n \in 1..MaxPerm : g_list \in [1..n -> AllCandidates]
    /\ poll_i = 0
    /\ solution_indices = <<0>>
    /\ votes = <<0>>
    /\ vote_index = [k \in 1..Len(g_list) |-> 0]
    /\ final_orientation_matrix = <<>>
    /\ result_vote = 0
    /\ ci = <<0, 0>>
    /\ vote_field = <<>>
    /\ poll_pc = "loop"
    /\ IndexIdle
    /\ run = 1
    /\ first_run = <<>>
    /\ DvIdle /\ DiIdle /\ GpIdle /\ GnomIdle /\ ClpIdle
    /\ ExpIdle

\* The first call has returned; lines 568-572 of the call on the
\* reordered list.
PollPermuted ==
    /\ run = 1
    /\ poll_pc = "done"
    /\ first_run' = [outcome |-> poll_pc,
                     g_list |-> g_list,
                     final_orientation_matrix |-> final_orientation_matrix,
                     result_vote |-> result_vote,
                     ci |-> ci,
                     vote_field |-> vote_field]
    /\ \E perm \in Reorderings(Len(g_list)) :
          g_list' = Reordered(g_list, perm)
    /\ run' = 2
    /\ poll_i' = 0
    /\ solution_indices' = <<0>>
    /\ votes' = <<0>>
    /\ vote_index' = [k \in 1..Len(g_list) |-> 0]
    /\ poll_pc' = "loop"
    /\ UNCHANGED <<dis_tol, final_orientation_matrix, result_vote, ci,
                   vote_field, indexVars>>
    /\ UNCHANGED <<dvVars, diVars, gpVars, gnomVars, clpVars, expVars>>

NextPollPerm ==
    \/ PollVote
    \/ PollNewSeed
    \/ PollReturn
    \/ PollPermuted

SpecPollPerm == InitPollPerm /\ [][NextPollPerm]_vars

\* ------------------------------------------------- diffracted_vector
\* Angles are integers: theta and bragg_angle in 1e-6 rad, min_theta in
\* 1e-4 degree.  The plane, the orientation and select_lambda are seen
\* through the two angles they give.

\* np.pi, times 10000
Pi10000 == 31416

\* abs(theta) < min_theta with min_theta read as radians
BelowMinThetaRadians(th, mt) == Abs(th) < mt * 100

\* line 160: abs(theta) < min_theta * np.pi / 180, that is
\* th * 1e-6 < mt * 1e-4 * pi / 180
BelowMinTheta(th, mt) == Abs(th) * 18000 < mt * Pi10000

\* the test of line 167 with <= in place of <
AnglesAgreeLoose(th, b) == Abs(th - b) <= 1

\* line 167: abs(theta - hkl.bragg_angle(the_energy)) < 1e-6
AnglesAgree(th, b) == Abs(th - b) < 1

\* lines 162-164 and 169: K = X + Gs with X = Xu / lambda_nm
DiffractedK == [kind |-> "vector", X |-> "Xu / lambda_nm",
                Gs |-> "gt.dot(hkl.scattering_vector())"]

InitDv ==
    /\ theta \in -MaxTheta..MaxTheta
    /\ min_theta \in 0..MaxMinTheta
    /\ bragg_angle \in -MaxTheta..MaxTheta
    /\ K = [kind |-> "unset"]
    /\ dv_pc = "call"
    /\ PollIdle /\ IndexIdle
    /\ TwiceIdle /\ DiIdle /\ GpIdle /\ GnomIdle /\ ClpIdle
    /\ ExpIdle

\* lines 159-161
DvReturnNone ==
    /\ dv_pc = "call"
    /\ BelowMinTheta(theta, min_theta)
    /\ K' = [kind |-> "None"]
    /\ dv_pc' = "return"
    /\ UNCHANGED <<theta, min_theta, bragg_angle>>
    /\ UNCHANGED <<expVars, pollVars, indexVars, twiceVars,
                   diVars, gpVars, gnomVars, clpVars>>

\* lines 159-167, the assertion fails
DvAssertionError ==
    /\ dv_pc = "call"
    /\ ~BelowMinTheta(theta, min_theta)
    /\ ~AnglesAgree(theta, bragg_angle)
    /\ dv_pc' = "AssertionError"
    /\ UNCHANGED <<theta, min_theta, bragg_angle, K>>
    /\ UNCHANGED <<expVars, pollVars, indexVars, twiceVars,
                   diVars, gpVars, gnomVars, clpVars>>

\* lines 159-170
DvReturnK ==
    /\ dv_pc = "call"
    /\ ~BelowMinTheta(theta, min_theta)
    /\ AnglesAgree(theta, bragg_angle)
    /\ K' = DiffractedK
    /\ dv_pc' = "return"
    /\ UNCHANGED <<theta, min_theta, bragg_angle>>
    /\ UNCHANGED <<expVars, pollVars, indexVars, twiceVars,
                   diVars, gpVars, gnomVars, clpVars>>

NextDv == DvReturnNone \/ DvAssertionError \/ DvReturnK

SpecDv == InitDv /\ [][NextDv]_vars

\* ----------------------------------------------- diffracted_intensity
\* scat_data is the table read from the scattering file: rows [q, f],
\* sorted by q ascending.  The plane is seen through q = 1 / (2 * d_hkl).

\* I0, the default of line 173
I0 == 1

\* The tables: one row per q of a non-empty set of q, in ascending order,
\* with any factors.
RECURSIVE SortedSeq(_)
SortedSeq(S) ==
    IF S = {} THEN <<>>
    ELSE LET m == CHOOSE x \in S : \A y \in S : x <= y
         IN <<m>> \o SortedSeq(S \ {m})

ScatTables ==
    UNION {LET qs == SortedSeq(S) IN
             {[k \in 1..Len(qs) |-> [q |-> qs[k], f |-> fs[k]]] :
                 fs \in [1..Len(qs) -> 1..2]} :
           S \in (SUBSET (1..MaxQ)) \ {{}}}

\* The index of the last row with a tabulated q below the query, 0 when
\* there is none.
ScatIndexFloor(sd, qq) ==
    LET below == {k \in 1..Len(sd) : sd[k].q < qq} IN
    IF below = {} THEN 0
    ELSE (CHOOSE k \in below : \A m \in below : m <= k) - 1

\* lines 198-201: (scat_data[:, 0] < q).tolist().index(False), and -1 when
\* False is not in the list
ScatIndex(sd, qq) ==
    LET notbelow == {k \in 1..Len(sd) : ~(sd[k].q < qq)} IN
    IF notbelow = {} THEN -1
    ELSE (CHOOSE k \in notbelow : \A m \in notbelow : k <= m) - 1

\* scat_data[index, ...] with Python's negative indices
ScatRow(sd, ix) == IF ix < 0 THEN sd[Len(sd) + ix + 1] ELSE At(sd, ix)

\* lines 202-204: I = I0 * scat_data[index, 1] / scat_data[0, 1]
Intensity(sd, ix, i0) == <<i0 * ScatRow(sd, ix).f, At(sd, 0).f>>

InitDi ==
    /\ scat_data \in ScatTables
    /\ q \in 0..(MaxQ + 1)
    /\ index = 0
    /\ I = <<0, 0>>
    /\ di_pc = "call"
    /\ PollIdle /\ IndexIdle
    /\ TwiceIdle /\ DvIdle /\ GpIdle /\ GnomIdle /\ ClpIdle
    /\ ExpIdle

\* lines 197-199 and 202-209: False is in the list
DiIndexFound ==
    /\ di_pc = "call"
    /\ ScatIndex(scat_data, q) >= 0
    /\ index' = ScatIndex(scat_data, q)
    /\ I' = Intensity(scat_data, index', I0)
    /\ di_pc' = "return"
    /\ UNCHANGED <<scat_data, q>>
    /\ UNCHANGED <<expVars, pollVars, indexVars, twiceVars,
                   dvVars, gpVars, gnomVars, clpVars>>

\* lines 197-209 through except ValueError
DiValueError ==
    /\ di_pc = "call"
    /\ ScatIndex(scat_data, q) < 0
    /\ index' = -1
    /\ I' = Intensity(scat_data, index', I0)
    /\ di_pc' = "return"
    /\ UNCHANGED <<scat_data, q>>
    /\ UNCHANGED <<expVars, pollVars, indexVars, twiceVars,
                   dvVars, gpVars, gnomVars, clpVars>>

NextDi == DiIndexFound \/ DiValueError

SpecDi == InitDi /\ [][NextDi]_vars

\* ------------- gnomonic_projection_point, gnomonic_projection_point2
\* A point is <<x, y, z>> with integer coordinates (mm), x along the beam.
\* A row of the result is [x, y, z]; its transverse components are kept
\* as the expression that gives them, or are NaN where numpy divides 0 by
\* 0.

Points == (1..2) \X (0..MaxCoord) \X (0..MaxCoord)

Centers == {<<1, 0, 0>>, <<1, 1, 0>>}

NaN == [kind |-> "nan"]

Zero == [kind |-> "zero"]

\* lines 307-313 for one row: r = sqrt(y^2 + z^2), p = x * tan(pi/2 - theta),
\* component c is  - data[:, c] * p / r
OnAxis(R, c) ==
    IF R[2] * R[2] + R[3] * R[3] = 0 THEN NaN
    ELSE [kind |-> "on_axis", R |-> R, c |-> c]

\* lines 336-347 for one R: CR = R - OC, r = sqrt(CR[1]^2 + CR[2]^2),
\* component c is  OC[c] - CR[c] * p / r
OffAxis(R, oc, c) ==
    IF (R[2] - oc[2]) * (R[2] - oc[2]) + (R[3] - oc[3]) * (R[3] - oc[3]) = 0
    THEN NaN
    ELSE [kind |-> "off_axis", R |-> R, OC |-> oc, c |-> c]

\* lines 346-347: data_gp[:, 1] = y and data_gp[:, 2] = z
SetColumns(gp, y, z) ==
    [k \in 1..Len(gp) |-> [x |-> gp[k].x, y |-> y, z |-> z]]

InitGp ==
    /\ \E n \in 1..MaxPoints : data \in [1..n -> Points]
    /\ OC \in {<<>>} \cup Centers
    /\ data_gp = <<>>
    /\ gp_i = 0
    /\ gp_pc = "call"
    /\ PollIdle /\ IndexIdle
    /\ TwiceIdle /\ DvIdle /\ DiIdle /\ GnomIdle /\ ClpIdle
    /\ ExpIdle

\* lines 328-329 and gnomonic_projection_point, lines 305-314
GpOnAxis ==
    /\ gp_pc = "call"
    /\ OC = <<>>
    /\ data_gp' = [k \in 1..Len(data) |->
                      [x |-> data[k][1], y |-> OnAxis(data[k], 1),
                       z |-> OnAxis(data[k], 2)]]
    /\ gp_pc' = "return"
    /\ UNCHANGED <<data, OC, gp_i>>
    /\ UNCHANGED <<expVars, pollVars, indexVars, twiceVars,
                   dvVars, diVars, gnomVars, clpVars>>

\* lines 330-334
GpOffAxis ==
    /\ gp_pc = "call"
    /\ OC # <<>>
    /\ data_gp' = [k \in 1..Len(data) |->
                      [x |-> data[k][1], y |-> Zero, z |-> Zero]]
    /\ gp_i' = 0
    /\ gp_pc' = "loop"
    /\ UNCHANGED <<data, OC>>
    /\ UNCHANGED <<expVars, pollVars, indexVars, twiceVars,
                   dvVars, diVars, gnomVars, clpVars>>

\* lines 335-347 for one i
GpLoopBody ==
    /\ gp_pc = "loop"
    /\ gp_i < Len(data)
    /\ data_gp' = SetColumns(data_gp, OffAxis(At(data, gp_i), OC, 1),
                             OffAxis(At(data, gp_i), OC, 2))
    /\ gp_i' = gp_i + 1
    /\ UNCHANGED <<data, OC, gp_pc>>
    /\ UNCHANGED <<expVars, pollVars, indexVars, twiceVars,
                   dvVars, diVars, gnomVars, clpVars>>

\* line 348
GpReturn ==
    /\ gp_pc = "loop"
    /\ gp_i = Len(data)
    /\ gp_pc' = "return"
    /\ UNCHANGED <<data, OC, data_gp, gp_i>>
    /\ UNCHANGED <<expVars, pollVars, indexVars, twiceVars,
                   dvVars, diVars, gnomVars, clpVars>>

NextGp == GpOnAxis \/ GpOffAxis \/ GpLoopBody \/ GpReturn

SpecGp == InitGp /\ [][NextGp]_vars

\* ------------------------------------------------ gnomonic_projection
\* The detector image is seen through its hit pixels (value 255) and
\* what lines 366-398 compute for each: the projected pixel coordinates
\* ug_px, vg_px, integers here, or NaN for a hit pixel at (ucen, vcen),
\* where r = 0 and  - u_dif * p / r  is 0 * p / 0.  A coordinate is
\* [nan, v].  ref_pos[1] and ref_pos[2] are in pixels of the gnomonic
\* image.

Px(v) == [nan |-> FALSE, v |-> v]

NaNPx == [nan |-> TRUE, v |-> 0]

\* numpy comparisons: every comparison with NaN is False
PxGt(c, n) == ~c.nan /\ c.v > n

PxLt(c, n) == ~c.nan /\ c.v < n

PxGe(c, n) == ~c.nan /\ c.v >= n

\* the projected coordinates one hit pixel can get
HitCoords ==
    {<<Px(u), Px(v)>> : u \in -1..GnomSize, v \in -1..GnomSize}
        \cup {<<NaNPx, NaNPx>>}

\* lines 389-390: gnom.ucen = gnom.size[0] / 2 - gnom.ref_pos[1] /
\* gnom.pixel_size, and the same for vcen
GnomCen(ref) == (GnomSize \div 2) - ref

\* a[mask] = value
MaskAssign(a, mask, value) ==
    [k \in 1..Len(a) |-> IF mask[k] THEN Px(value) ELSE a[k]]

MaskGt(a, n) == [k \in 1..Len(a) |-> PxGt(a[k], n)]

MaskLt(a, n) == [k \in 1..Len(a) |-> PxLt(a[k], n)]

\* lines 401-409, one assignment after the other
Clamp(ug, vg, ucen, vcen) ==
    LET vg1 == MaskAssign(vg, MaskGt(ug, GnomSize - 1), vcen)
        ug1 == MaskAssign(ug, MaskGt(ug, GnomSize - 1), ucen)
        vg2 == MaskAssign(vg1, MaskLt(ug1, 0), vcen)
        ug2 == MaskAssign(ug1, MaskLt(ug1, 0), ucen)
        ug3 == MaskAssign(ug2, MaskGt(vg2, GnomSize - 1), ucen)
        vg3 == MaskAssign(vg2, MaskGt(vg2, GnomSize - 1), vcen)
        ug4 == MaskAssign(ug3, MaskLt(vg3, 0), ucen)
        vg4 == MaskAssign(vg3, MaskLt(vg3, 0), vcen)
    IN [ug_px |-> ug4, vg_px |-> vg4]

\* lines 412-415: a.min() >= 0 and a.max() < size; min and max of an array
\* holding NaN are NaN
InRange(a) ==
    \A k \in 1..Len(a) : PxGe(a[k], 0) /\ PxLt(a[k], GnomSize)

InitGnom ==
    /\ ref_pos \in (-MaxRef..MaxRef) \X (-MaxRef..MaxRef)
    /\ \E n \in 0..MaxHits :
         \E hits \in [1..n -> HitCoords] :
            /\ ug_px = [k \in 1..n |-> hits[k][1]]
            /\ vg_px = [k \in 1..n |-> hits[k][2]]
    /\ gnom_pc = "call"
    /\ PollIdle /\ IndexIdle
    /\ TwiceIdle /\ DvIdle /\ DiIdle /\ GpIdle /\ ClpIdle
    /\ ExpIdle

\* lines 361-376 with no hit pixel: ug_mm[0] on an empty array
GnomIndexError ==
    /\ gnom_pc = "call"
    /\ Len(ug_px) = 0
    /\ gnom_pc' = "IndexError"
    /\ UNCHANGED <<ref_pos, ug_px, vg_px>>
    /\ UNCHANGED <<expVars, pollVars, indexVars, twiceVars,
                   dvVars, diVars, gpVars, clpVars>>

\* lines 361-415, one of the four assertions fails
GnomAssertionError ==
    /\ gnom_pc = "call"
    /\ Len(ug_px) > 0
    /\ LET c == Clamp(ug_px, vg_px, GnomCen(ref_pos[1]), GnomCen(ref_pos[2]))
       IN /\ ~(InRange(c.ug_px) /\ InRange(c.vg_px))
          /\ ug_px' = c.ug_px
          /\ vg_px' = c.vg_px
    /\ gnom_pc' = "AssertionError"
    /\ UNCHANGED ref_pos
    /\ UNCHANGED <<expVars, pollVars, indexVars, twiceVars,
                   dvVars, diVars, gpVars, clpVars>>

\* lines 361-425
GnomReturn ==
    /\ gnom_pc = "call"
    /\ Len(ug_px) > 0
    /\ LET c == Clamp(ug_px, vg_px, GnomCen(ref_pos[1]), GnomCen(ref_pos[2]))
       IN /\ InRange(c.ug_px) /\ InRange(c.vg_px)
          /\ ug_px' = c.ug_px
          /\ vg_px' = c.vg_px
    /\ gnom_pc' = "return"
    /\ UNCHANGED ref_pos
    /\ UNCHANGED <<expVars, pollVars, indexVars, twiceVars,
                   dvVars, diVars, gpVars, clpVars>>

NextGnom == GnomIndexError \/ GnomAssertionError \/ GnomReturn

SpecGnom == InitGnom /\ [][NextGnom]_vars

\* ----------------------------------------------- compute_Laue_pattern
\* Calls with show_direct_beam and inverted left False.  A plane is seen
\* through what the geometry gives for it: the energy and glancing angle
\* of select_lambda, the Bragg angle of the plane, whether K is parallel
\* to the detector (Kx_zero) and the pixel u the diffracted beam hits.
\* The image is followed along one row of DetSize pixels through the
\* spots; detector.data maps a pixel 0..DetSize-1 to its value.

\* np.iinfo(np.uint8).max
max_val == 255

\* min_theta=0.1 degree, the default of diffracted_vector, in 1e-4 degree
DefaultMinTheta == 1000

Sign(x) == IF x < 0 THEN -1 ELSE 1

\* The planes: the glancing angle has the sign of the energy
\* (the_energy = lambda_nm_to_keV(2 * d_hkl * sin(theta))); attributes
\* that are not read for a plane are left at 0 / FALSE.
LauePlanes ==
    {[the_energy |-> e, theta |-> Sign(e) * t,
      bragg_angle |-> Sign(e) * t + d, Kx_zero |-> z, u |-> u] :
        e \in {-2, 1}, t \in {1000, 2000}, d \in {0, 1}, z \in BOOLEAN,
        u \in 0..(DetSize - 1)}

ReadPlanes ==
    {hkl \in LauePlanes :
        /\ (hkl.theta \in {-1000, 1000} \/ hkl.bragg_angle # hkl.theta)
              => (hkl.Kx_zero = FALSE /\ hkl.u = 0)
        /\ hkl.theta \in {-1000, 1000} => hkl.bragg_angle = hkl.theta
        /\ hkl.Kx_zero => hkl.u = 0}

\* diffracted_vector(hkl, orientation, Xu=Xu), lines 159-170
DvOutcome(hkl) ==
    IF BelowMinTheta(hkl.theta, DefaultMinTheta) THEN "None"
    ELSE IF ~AnglesAgree(hkl.theta, hkl.bragg_angle) THEN "AssertionError"
    ELSE "vector"

\* lines 258-261
OutsideSpectrum(hkl, sp) ==
    /\ sp # <<>>
    /\ \/ \A k \in 1..Len(sp) : Abs(hkl.the_energy) < sp[k]
       \/ \A k \in 1..Len(sp) : Abs(hkl.the_energy) > sp[k]

\* line 264
SkipK(hkl) == DvOutcome(hkl) = "None" \/ hkl.Kx_zero

\* q = 1 / (2 * d_hkl) of the plane, from Bragg's law: q is the energy
\* times sin(theta) over 1.2398
PlaneQ(hkl) == (Abs(hkl.the_energy) * Abs(hkl.theta)) \div 1000

\* the table of data/Ni_atom_scattering.txt
NiScatData == <<[q |-> 2, f |-> 5], [q |-> 4, f |-> 1]>>

\* diffracted_intensity(hkl, I0=max_val), lines 197-209
PlaneIntensity(hkl) ==
    LET num_den == Intensity(NiScatData, ScatIndex(NiScatData, PlaneQ(hkl)),
                             max_val)
    IN num_den[1] \div num_den[2]

Supported == {"constant", "energy", "intensity"}

\* every spot carries max_val
StampValueConstant(hkl, cf) == max_val

\* lines 275-281: the value a spot carries
StampValue(hkl, cf) ==
    IF cf = "constant" THEN max_val
    ELSE IF cf = "energy" THEN Abs(hkl.the_energy)
    ELSE PlaneIntensity(hkl)

\* add_to_image(image, value * spot, (u, v)): the square of half size r
\* around u, cropped to the image, is added to the image
AddToImage(image, value, u, r) ==
    [px \in DOMAIN image |->
        image[px] + (IF Abs(px - u) <= r THEN value ELSE 0)]

InitClp ==
    /\ \E n \in 0..MaxLauePlanes : hkl_planes \in [1..n -> ReadPlanes]
    /\ spectrum \in {<<>>, <<1, 1>>}
    /\ color_field \in Supported \cup {"other"}
    /\ r_spot \in {0, 1}
    /\ detector_data = [px \in 0..(DetSize - 1) |-> 0]
    /\ clp_i = 0
    /\ clp_pc = "loop"
    /\ PollIdle /\ IndexIdle
    /\ TwiceIdle /\ DvIdle /\ DiIdle /\ GpIdle /\ GnomIdle
    /\ ExpIdle

\* lines 256-261: continue
ClpSkipSpectrum ==
    /\ clp_pc = "loop"
    /\ clp_i < Len(hkl_planes)
    /\ OutsideSpectrum(At(hkl_planes, clp_i), spectrum)
    /\ clp_i' = clp_i + 1
    /\ UNCHANGED <<hkl_planes, spectrum, color_field, r_spot, detector_data,
                   clp_pc>>
    /\ UNCHANGED <<expVars, pollVars, indexVars, twiceVars,
                   dvVars, diVars, gpVars, gnomVars>>

\* lines 256-263: the assertion of diffracted_vector fails
ClpAssertionError ==
    /\ clp_pc = "loop"
    /\ clp_i < Len(hkl_planes)
    /\ ~OutsideSpectrum(At(hkl_planes, clp_i), spectrum)
    /\ DvOutcome(At(hkl_planes, clp_i)) = "AssertionError"
    /\ clp_pc' = "AssertionError"
    /\ UNCHANGED <<hkl_planes, spectrum, color_field, r_spot, detector_data,
                   clp_i>>
    /\ UNCHANGED <<expVars, pollVars, indexVars, twiceVars,
                   dvVars, diVars, gpVars, gnomVars>>

\* lines 256-265: continue
ClpSkipK ==
    /\ clp_pc = "loop"
    /\ clp_i < Len(hkl_planes)
    /\ ~OutsideSpectrum(At(hkl_planes, clp_i), spectrum)
    /\ DvOutcome(At(hkl_planes, clp_i)) # "AssertionError"
    /\ SkipK(At(hkl_planes, clp_i))
    /\ clp_i' = clp_i + 1
    /\ UNCHANGED <<hkl_planes, spectrum, color_field, r_spot, detector_data,
                   clp_pc>>
    /\ UNCHANGED <<expVars, pollVars, indexVars, twiceVars,
                   dvVars, diVars, gpVars, gnomVars>>

\* lines 256-281: the spot is added
ClpStamp ==
    /\ clp_pc = "loop"
    /\ clp_i < Len(hkl_planes)
    /\ ~OutsideSpectrum(At(hkl_planes, clp_i), spectrum)
    /\ DvOutcome(At(hkl_planes, clp_i)) = "vector"
    /\ ~SkipK(At(hkl_planes, clp_i))
    /\ color_field \in Supported
    /\ detector_data' =
           AddToImage(detector_data,
                      StampValue(At(hkl_planes, clp_i), color_field),
                      At(hkl_planes, clp_i).u, r_spot)
    /\ clp_i' = clp_i + 1
    /\ UNCHANGED <<hkl_planes, spectrum, color_field, r_spot, clp_pc>>
    /\ UNCHANGED <<expVars, pollVars, indexVars, twiceVars,
                   dvVars, diVars, gpVars, gnomVars>>

\* lines 256-283: raise ValueError
ClpValueError ==
    /\ clp_pc = "loop"
    /\ clp_i < Len(hkl_planes)
    /\ ~OutsideSpectrum(At(hkl_planes, clp_i), spectrum)
    /\ DvOutcome(At(hkl_planes, clp_i)) = "vector"
    /\ ~SkipK(At(hkl_planes, clp_i))
    /\ color_field \notin Supported
    /\ clp_pc' = "ValueError"
    /\ UNCHANGED <<hkl_planes, spectrum, color_field, r_spot, detector_data,
                   clp_i>>
    /\ UNCHANGED <<expVars, pollVars, indexVars, twiceVars,
                   dvVars, diVars, gpVars, gnomVars>>

\* lines 284-292 with inverted False
ClpReturn ==
    /\ clp_pc = "loop"
    /\ clp_i = Len(hkl_planes)
    /\ clp_pc' = "return"
    /\ UNCHANGED <<hkl_planes, spectrum, color_field, r_spot, detector_data,
                   clp_i>>
    /\ UNCHANGED <<expVars, pollVars, indexVars, twiceVars,
                   dvVars, diVars, gpVars, gnomVars>>

NextClp ==
    \/ ClpSkipSpectrum
    \/ ClpAssertionError
    \/ ClpSkipK
    \/ ClpStamp
    \/ ClpValueError
    \/ ClpReturn

SpecClp == InitClp /\ [][NextClp]_vars

\* ------------------------------------------------------------ Experiment
\* A detector is seen through its data field: "blank" as handed to
\* add_detector, later whatever forward_simulation assigned to it.

\* The images the simulation routines of a ForwardSimulation return.
fsim == "laue image"
dct_projection == "dct image"

SimTypes == {"laue", "dct", "other"}

\* A dispatch that runs the Laue routine for every type but 'dct'.
SimulationRoutineAnyType(sim_type) ==
    IF sim_type = "dct" THEN "dct_projection" ELSE "fsim"

\* lines 280-288: the routine forward_simulation runs for a sim_type
SimulationRoutine(sim_type) ==
    IF sim_type = "laue" THEN "fsim"
    ELSE IF sim_type = "dct" THEN "dct_projection"
    ELSE "none"

\* list[k] of Python: the 1-based position read, 0 when it raises IndexError
ListPosition(s, k) ==
    IF 0 <= k /\ k < Len(s) THEN k + 1
    ELSE IF k < 0 /\ -k <= Len(s) THEN Len(s) + k + 1
    ELSE 0

InitExp ==
    /\ ExperimentIdle
    /\ SourceIdle
    /\ BuildIdle
    /\ PollIdle
    /\ IndexIdle
    /\ LaueIdle

\* add_detector with a Detector2d (lines 258-262)
AddDetector ==
    /\ Len(detectors) < MaxDetectors
    /\ \E set_as_active \in BOOLEAN :
          /\ detectors' = Append(detectors, "blank")
          /\ active_detector_id' =
                 IF set_as_active THEN Len(detectors') - 1
                 ELSE active_detector_id
          /\ exp_call' = [op |-> "add_detector", sim_type |-> "",
                          flag |-> set_as_active, ran |-> "none",
                          ret |-> "None"]
    /\ UNCHANGED <<fs_exp, sourceVars, buildVars, pollVars, indexVars,
                   laueVars>>

\* add_detector with anything else: the assert of line 258 fails
AddDetectorAssertionError ==
    /\ \E set_as_active \in BOOLEAN :
          exp_call' = [op |-> "add_detector", sim_type |-> "",
                       flag |-> set_as_active, ran |-> "none",
                       ret |-> "AssertionError"]
    /\ UNCHANGED <<detectors, active_detector_id, fs_exp, sourceVars,
                   buildVars, pollVars, indexVars, laueVars>>

\* forward_simulation, else branch (lines 286-288)
ForwardSimulationWrongType ==
    \E sim_type \in SimTypes, set_result_to_detector \in BOOLEAN :
        /\ SimulationRoutine(sim_type) = "none"
        /\ exp_call' = [op |-> "forward_simulation", sim_type |-> sim_type,
                        flag |-> set_result_to_detector, ran |-> "none",
                        ret |-> "None"]
        /\ UNCHANGED <<detectors, active_detector_id, fs_exp, sourceVars,
                       buildVars, pollVars, indexVars, laueVars>>

\* forward_simulation, 'laue' and 'dct' branches (lines 280-285, 289-291)
ForwardSimulationRun ==
    \E sim_type \in SimTypes, set_result_to_detector \in BOOLEAN :
        LET routine == SimulationRoutine(sim_type)
            result == IF routine = "fsim" THEN fsim ELSE dct_projection
            at == ListPosition(detectors, active_detector_id)
        IN /\ routine # "none"
           /\ fs_exp' = "self"
           /\ detectors' =
                  IF set_result_to_detector /\ at > 0
                  THEN [detectors EXCEPT ![at] = result]
                  ELSE detectors
           /\ exp_call' = [op |-> "forward_simulation",
                           sim_type |-> sim_type,
                           flag |-> set_result_to_detector,
                           ran |-> routine,
                           ret |-> IF set_result_to_detector /\ at = 0
                                   THEN "IndexError" ELSE result]
           /\ UNCHANGED <<active_detector_id, sourceVars, buildVars,
                          pollVars, indexVars, laueVars>>

NextExp ==
    \/ AddDetector
    \/ AddDetectorAssertionError
    \/ ForwardSimulationWrongType
    \/ ForwardSimulationRun

SpecExp == InitExp /\ [][NextExp]_vars


\* ------------------------------------------------------------ XraySource
\* Energies are integers (keV); a stored energy is <<e>>, None is <<>>.
Energies == (-MaxEnergy)..MaxEnergy

\* lines 55-57: the min energy after the test on its sign
ClampedMinEnergy(mn) == IF mn < 0 THEN 0 ELSE mn

\* lines 58-59: what the test on max_energy prints, <<>> for nothing
PrintedMaxEnergy(mn, mx) ==
    IF mx <= ClampedMinEnergy(mn) THEN <<ClampedMinEnergy(mn)>> ELSE <<>>

\* line 61: the max energy handed to set_max_energy is the argument
StoredMaxEnergy(mn, mx) == mx

InitSource ==
    /\ SourceIdle
    /\ ExperimentIdle
    /\ BuildIdle
    /\ PollIdle
    /\ IndexIdle
    /\ LaueIdle

\* set_energy (lines 49-52)
SetEnergy ==
    /\ \E energy \in Energies :
          /\ min_energy' = <<energy>>
          /\ max_energy' = <<energy>>
          /\ energy_call' = [op |-> "set_energy", args |-> <<energy>>,
                             printed |-> <<>>]
    /\ UNCHANGED <<experimentVars, buildVars, pollVars, indexVars, laueVars>>

\* set_energy_range (lines 54-61)
SetEnergyRange ==
    /\ \E mn \in Energies, mx \in Energies :
          /\ min_energy' = <<ClampedMinEnergy(mn)>>
          /\ max_energy' = <<StoredMaxEnergy(mn, mx)>>
          /\ energy_call' = [op |-> "set_energy_range", args |-> <<mn, mx>>,
                             printed |-> PrintedMaxEnergy(mn, mx)]
    /\ UNCHANGED <<experimentVars, buildVars, pollVars, indexVars, laueVars>>

NextSource == SetEnergy \/ SetEnergyRange

SpecSource == InitSource /\ [][NextSource]_vars


\* ------------------------------------------------------------ build_list
\* A plane HklPlane(h, k, l, lattice) is seen through <<h, k, l>>.
Extinctions == {"None", "FCC", "BCC", "other"}

\* line 38: indices = range(-max_miller, max_miller + 1)
Indices(m) == (-m)..m

\* The (h, k, l) of the pass after t in the three nested loops of lines
\* 39-41, <<>> after the last pass.
NextPass(t, m) ==
    IF t[3] < m THEN <<t[1], t[2], t[3] + 1>>
    ELSE IF t[2] < m THEN <<t[1], t[2] + 1, -m>>
    ELSE IF t[1] < m THEN <<t[1] + 1, -m, -m>>
    ELSE <<>>

\* line 48
FccTest(h, k, l) ==
    \/ h % 2 = 0 /\ k % 2 = 0 /\ l % 2 = 0
    \/ h % 2 = 1 /\ k % 2 = 1 /\ l % 2 = 1

\* A BCC test that takes the planes of odd h^2 + k^2 + l^2.
BccTestOdd(h, k, l) == (h * h + k * k + l * l) % 2 = 1

\* line 52
BccTest(h, k, l) == (h * h + k * k + l * l) % 2 = 0

\* lines 44-53: whether the pass on a non-zero (h, k, l) appends a plane
Appends(ext, t) ==
    \/ ext = "None"
    \/ ext = "FCC" /\ FccTest(t[1], t[2], t[3])
    \/ ext = "BCC" /\ BccTest(t[1], t[2], t[3])

InitBuild ==
    /\ max_miller \in 0..MaxMiller
    /\ extinction \in Extinctions
    /\ hklplanes = <<>>
    /\ next_hkl = <<-max_miller, -max_miller, -max_miller>>
    /\ build_pc = "loop"
    /\ ExperimentIdle
    /\ SourceIdle
    /\ PollIdle
    /\ IndexIdle
    /\ LaueIdle

\* lines 42-43
BuildSkipZero ==
    /\ build_pc = "loop"
    /\ next_hkl = <<0, 0, 0>>
    /\ next_hkl' = NextPass(next_hkl, max_miller)
    /\ UNCHANGED <<max_miller, extinction, hklplanes, build_pc>>
    /\ UNCHANGED <<experimentVars, sourceVars, pollVars, indexVars, laueVars>>

\* lines 44-53, a pass that appends
BuildAppend ==
    /\ build_pc = "loop"
    /\ next_hkl \notin {<<>>, <<0, 0, 0>>}
    /\ Appends(extinction, next_hkl)
    /\ hklplanes' = Append(hklplanes, next_hkl)
    /\ next_hkl' = NextPass(next_hkl, max_miller)
    /\ UNCHANGED <<max_miller, extinction, build_pc>>
    /\ UNCHANGED <<experimentVars, sourceVars, pollVars, indexVars, laueVars>>

\* lines 44-53, a pass that appends nothing
BuildNoAppend ==
    /\ build_pc = "loop"
    /\ next_hkl \notin {<<>>, <<0, 0, 0>>}
    /\ ~Appends(extinction, next_hkl)
    /\ next_hkl' = NextPass(next_hkl, max_miller)
    /\ UNCHANGED <<max_miller, extinction, hklplanes, build_pc>>
    /\ UNCHANGED <<experimentVars, sourceVars, pollVars, indexVars, laueVars>>

\* line 54
BuildReturn ==
    /\ build_pc = "loop"
    /\ next_hkl = <<>>
    /\ build_pc' = "done"
    /\ UNCHANGED <<max_miller, extinction, hklplanes, next_hkl>>
    /\ UNCHANGED <<experimentVars, sourceVars, pollVars, indexVars, laueVars>>

NextBuild == BuildSkipZero \/ BuildAppend \/ BuildNoAppend \/ BuildReturn

SpecBuild == InitBuild /\ [][NextBuild]_vars


\* ------------------------------------------------------- poller claims
PollReturns == poll_pc = "loop" /\ poll_pc' = "done"

SeedCount == Len(solution_indices)

SeedMatrix(j) == At(g_list, At(solution_indices, j))

VoteValues(vs) == {vs[k] : k \in 1..Len(vs)}

SetMax(S) == CHOOSE v \in S : \A w \in S : v >= w

\* C1 (as claimed): the vote field returned by poll_system has one entry per
\* input candidate, and entry i is the vote count, as it stands when the
\* clustering loop ends, of the cluster candidate i was attached to -- for
\* the candidates of the winning cluster as for all others.
C1_VoteFieldIsClusterVotes ==
    [][PollReturns =>
         /\ Len(vote_field') = Len(g_list)
         /\ \A k \in 1..Len(g_list) :
                vote_field'[k] = At(votes, vote_index[k])]_vars

\* The runner-up of the claim: the largest vote value strictly below the
\* maximum, 0 when there is none.
RunnerUpDistinct(vs) ==
    LET v1 == SetMax(VoteValues(vs))
        below == {v \in VoteValues(vs) : v < v1}
    IN IF below = {} THEN 0 ELSE SetMax(below)

\* The runner-up of the code: the largest vote count among the seeds other
\* than one seed holding the maximum, 0 when there is no other seed.
RunnerUpOther(vs) ==
    LET v1 == SetMax(VoteValues(vs))
        k1 == CHOOSE k \in 1..Len(vs) : vs[k] = v1
        others == {vs[k] : k \in (1..Len(vs)) \ {k1}}
    IN IF others = {} THEN 0 ELSE SetMax(others)

\* C2 (as claimed): the confidence index returned by poll_system is
\* (v1 - v2) / N with N the total number of votes, v1 the highest vote count
\* and v2 the next highest DISTINCT vote value (0 when there is none), also
\* when two seeds tie for the maximum.
C2_ConfidenceUsesDistinctRunnerUp ==
    [][PollReturns =>
         ci' = <<SetMax(VoteValues(votes)) - RunnerUpDistinct(votes),
                 SumSeq(votes)>>]_vars

\* C2 (amended): the confidence index returned by poll_system is
\* (v1 - v2) / N with N the total number of votes, v1 the highest vote count
\* and v2 the highest vote count among the other seeds once one seed holding
\* v1 is set aside (0 when there is no other seed): when two seeds tie for
\* the maximum, v2 = v1 and the confidence index is 0.
C2_ConfidenceUsesOtherSeeds ==
    [][PollReturns =>
         /\ ci' = <<SetMax(VoteValues(votes)) - RunnerUpOther(votes),
                    SumSeq(votes)>>
         /\ (Cardinality({k \in 1..Len(votes) :
                            votes[k] = SetMax(VoteValues(votes))}) >= 2
               => ci'[1] = 0)]_vars

\* C2 witness: poll_system has returned with three seeds, two of them tied
\* for the maximum and a third with fewer votes; the confidence index is 0.
C2_Witness ==
    /\ poll_pc = "done"
    /\ SeedCount = 3
    /\ Len(final_orientation_matrix) = 2
    /\ ci[1] = 0
    /\ ci[2] > 0

\* The seeds within tolerance of candidate i, among those that exist when
\* candidate i is processed.
SeedsWithinTol(i, seeds) ==
    {j \in 0..(Len(seeds) - 1) :
        MisorientationAngle(At(g_list, i), At(g_list, At(seeds, j))) <= dis_tol}

\* C7: poll_system processes the candidates in input order; candidate i is
\* attached to the FIRST seed (in seed-creation order) whose misorientation
\* with it is <= dis_tol, adding exactly one vote to that seed and changing
\* nothing else; when no seed is within tolerance it becomes a new seed with
\* exactly 1 vote.  The first candidate becomes seed 0 with 1 vote.
\* (Tolerances are non-negative.)
C7_FirstMatchAttachment ==
    [][(poll_pc = "loop" /\ poll_i < Len(g_list)) =>
         LET M == SeedsWithinTol(poll_i, solution_indices) IN
         /\ poll_i' = poll_i + 1
         /\ poll_pc' = "loop"
         /\ \A k \in 1..Len(g_list) :
                k # poll_i + 1 => vote_index'[k] = vote_index[k]
         /\ IF M # {}
            THEN LET j0 == CHOOSE j \in M : \A k \in M : j <= k IN
                 /\ solution_indices' = solution_indices
                 /\ votes' = [votes EXCEPT ![j0 + 1] = @ + 1]
                 /\ vote_index'[poll_i + 1] = j0
            ELSE /\ solution_indices' = Append(solution_indices, poll_i)
                 /\ votes' = Append(votes, 1)
                 /\ vote_index'[poll_i + 1] = Len(votes)
         /\ (poll_i = 0 => solution_indices' = <<0>> /\ votes' = <<1>>)]_vars

\* C7 witness: a processed candidate sits in a seed's cluster although a
\* seed created later, but before the candidate came, is strictly closer.
C7_Witness ==
    \E i \in 0..(poll_i - 1) : \E j \in 0..(SeedCount - 1) :
        /\ j > At(vote_index, i)
        /\ At(solution_indices, j) < i
        /\ MisorientationAngle(At(g_list, i), SeedMatrix(j))
             < MisorientationAngle(At(g_list, i), SeedMatrix(At(vote_index, i)))
        /\ MisorientationAngle(At(g_list, i), SeedMatrix(j)) <= dis_tol

\* C8: for a non-empty candidate list the matrices returned by poll_system
\* are exactly the seed matrices of the clusters whose vote count is the
\* maximum, one per tied cluster in seed-creation order, and the returned
\* vote number is that maximum as it stands before confidence_index runs.
C8_WinnersAreTiedSeeds ==
    [][PollReturns =>
         LET m == SetMax(VoteValues(votes))
             W == {j \in 0..(Len(votes) - 1) : At(votes, j) = m}
         IN /\ result_vote' = m
            /\ Len(final_orientation_matrix') = Cardinality(W)
            /\ \A n \in 1..Len(final_orientation_matrix') :
                 \E j \in W :
                    /\ Cardinality({k \in W : k < j}) = n - 1
                    /\ final_orientation_matrix'[n] = SeedMatrix(j)]_vars

\* C8 witness: poll_system has returned two tied winners out of three
\* clusters, the third with fewer votes.
C8_Witness ==
    /\ poll_pc = "done"
    /\ SeedCount = 3
    /\ Len(final_orientation_matrix) = 2
    /\ result_vote = 2
    /\ final_orientation_matrix[1] # final_orientation_matrix[2]

AllIdentical(gl) == \A a, b \in 1..Len(gl) : gl[a] = gl[b]

\* C9: for a candidate list of length N >= 1 whose matrices are all
\* identical, poll_system creates exactly one cluster and returns exactly
\* one matrix, the vote count N and the confidence index 1.0.
C9_IdenticalCandidatesOneCluster ==
    (AllIdentical(g_list) /\ Len(g_list) >= 1) =>
        /\ SeedCount = 1
        /\ (poll_pc = "done" =>
              /\ Len(final_orientation_matrix) = 1
              /\ final_orientation_matrix[1] = g_list[1]
              /\ result_vote = Len(g_list)
              /\ ci[2] > 0
              /\ ci[1] = ci[2])
        /\ poll_pc # "IndexError"

\* C9 witness: poll_system has returned on three or more identical matrices.
C9_Witness ==
    /\ poll_pc = "done"
    /\ Len(g_list) >= 3
    /\ AllIdentical(g_list)

\* ------------------------------------------------------ indexer claims
IndexFinished == index_pc \in {"done", "IndexError", "UnboundLocalError"}

\* None, or a result whose winner list is empty
EmptyResult ==
    \/ index_ret = <<>>
    \/ index_ret.final_orientation_matrix = <<>>

\* C3 (as claimed): index called with an empty experimental spot list, for
\* any candidate plane list, terminates without raising and returns an
\* empty result.
C3_EmptySpotListReturnsEmpty ==
    (n_spots = 0 /\ IndexFinished) => (index_pc = "done" /\ EmptyResult)

\* C4 (as claimed): when triplet matching accepts no triplet, so that the
\* candidate list handed to poll_system is empty, poll_system and index
\* complete without an error and report "no solution" as an empty winner
\* list or a failure indicator.
C4_NoTripletIsNoSolution ==
    (n_spots >= 1 /\ index_pc \in {"poll", "done", "IndexError"}
       /\ OP_indexed = <<>>)
    => /\ poll_pc # "IndexError"
       /\ index_pc # "IndexError"
       /\ (index_pc = "done" => EmptyResult)

\* Three spots whose pairwise angles are those between the planes (1,1,1),
\* (1,-1,1), (-1,1,1) -- 70.53, 70.53 and 109.47 degrees -- the three planes
\* as the candidate list, and a tolerance of 0.5 degrees.
Scenario111 ==
    /\ n_spots = 3
    /\ n_planes = 3
    /\ tol_angle = 50
    /\ plane_angle[<<0, 1>>] = 7053
    /\ plane_angle[<<0, 2>>] = 7053
    /\ plane_angle[<<1, 2>>] = 10947
    /\ Cardinality({p \in Pairs(3) : spot_angle[p] = 7053}) = 2
    /\ Cardinality({p \in Pairs(3) : spot_angle[p] = 10947}) = 1

\* C5 (as claimed): in that scenario triplet_indexing returns exactly one
\* accepted entry and index hands exactly one orientation candidate to the
\* poller.
C5_OneTripletOneCandidate ==
    (Scenario111 /\ index_pc \in {"poll", "done", "IndexError"})
    => (Len(OP_indexed) = 1 /\ Len(g_indexation) = 1 /\ Len(g_list) = 1)

\* The three plane pairs matched by the accepted combination of rows c.
MatchedPairs(c) ==
    [m \in 1..3 |-> {At(angles_th, c[m]).hkl1, At(angles_th, c[m]).hkl2}]

\* C6 (as claimed): every combination of matched rows that triplet_indexing
\* accepts references exactly 3 distinct plane indices among its six slots,
\* and each of the 3 appears in exactly two of the three matched pairs.
C6_AcceptedIsProperTriplet ==
    \A n \in 1..Len(OP_rows) :
        LET mp == MatchedPairs(OP_rows[n])
            planes == mp[1] \cup mp[2] \cup mp[3]
        IN /\ Cardinality(planes) = 3
           /\ \A pl \in planes : Cardinality({m \in 1..3 : pl \in mp[m]}) = 2

AllTriplets(n) ==
    {t \in (0..(n - 1)) \X (0..(n - 1)) \X (0..(n - 1)) :
        t[1] < t[2] /\ t[2] < t[3]}

\* strict lexicographic order on triples
LexLess(a, b) ==
    \/ a[1] < b[1]
    \/ a[1] = b[1] /\ a[2] < b[2]
    \/ a[1] = b[1] /\ a[2] = b[2] /\ a[3] < b[3]

LexMinOrEnd(S) ==
    IF S = {} THEN <<>>
    ELSE CHOOSE t \in S : \A u \in S : u = t \/ LexLess(t, u)

\* The rows of angles_th within tolerance of the angle of spots a and b.
RowsWithinTol(a, b) ==
    {r \in 0..(Len(angles_th) - 1) :
        Abs(At(angles_th, r).angle - angles_exp[<<a, b>>]) < tol_angle}

\* The combinations of rows with exactly 3 distinct planes for triplet t.
AcceptedRows(t) ==
    {c \in RowsWithinTol(t[1], t[2]) \X RowsWithinTol(t[2], t[3])
             \X RowsWithinTol(t[1], t[3]) :
        Cardinality(UNION {MatchedPairs(c)[m] : m \in 1..3}) = 3}

\* C10: triplet_indexing visits each of the C(n,3) spot triplets (i,j,k),
\* i < j < k, exactly once in lexicographic order, and within one triplet
\* appends the accepted combinations in lexicographic order of their rows
\* (row for (i,j), then for (j,k), then for (i,k)), each once: the returned
\* list is a function of the inputs.
C10_LexicographicEnumeration ==
    [][/\ (index_pc = "tables" =>
              /\ triplet' = LexMinOrEnd(AllTriplets(n_spots))
              /\ nombre_triplet' = 0
              /\ OP_indexed' = <<>>)
       /\ (index_pc = "triplets" /\ triplet # <<>> =>
              LET first == Len(OP_rows) + 1
                  last == Len(OP_rows')
              IN /\ nombre_triplet =
                       Cardinality({t \in AllTriplets(n_spots) :
                                       LexLess(t, triplet)})
                 /\ nombre_triplet' = nombre_triplet + 1
                 /\ triplet' = LexMinOrEnd({t \in AllTriplets(n_spots) :
                                              LexLess(triplet, t)})
                 /\ index_pc' = "triplets"
                 /\ SubSeq(OP_rows', 1, Len(OP_rows)) = OP_rows
                 /\ SubSeq(OP_indexed', 1, Len(OP_indexed)) = OP_indexed
                 /\ Len(OP_indexed') = last
                 /\ {OP_rows'[n] : n \in first..last} = AcceptedRows(triplet)
                 /\ \A n \in first..last :
                       /\ n < last => LexLess(OP_rows'[n], OP_rows'[n + 1])
                       /\ SubSeq(OP_indexed'[n], 1, 3)
                            = <<triplet[2], triplet[3], triplet[1]>>)
       /\ (index_pc = "triplets" /\ triplet = <<>> =>
              nombre_triplet = Cardinality(AllTriplets(n_spots)))]_vars

\* C10 witness: triplet_indexing has returned after visiting four triplets,
\* with entries from two different triplets and two entries of one triplet.
C10_Witness ==
    /\ index_pc = "poll"
    /\ nombre_triplet = 4
    /\ \E a, b \in 1..Len(OP_indexed) :
          a < b /\ SubSeq(OP_indexed[a], 1, 3) # SubSeq(OP_indexed[b], 1, 3)
    /\ \E a, b \in 1..Len(OP_indexed) :
          /\ a < b
          /\ SubSeq(OP_indexed[a], 1, 3) = SubSeq(OP_indexed[b], 1, 3)
          /\ OP_rows[a] # OP_rows[b]

\* The three matrices lines 660-663 build from one accepted entry.
EntryMatrices(entry) ==
    {transformation_matrix(At(entry, At(At(pos, j), 2)),
                           At(entry, At(At(pos, j), 3)),
                           At(entry, At(At(pos, j), 0)),
                           At(entry, At(At(pos, j), 1))) : j \in 0..2}

PollCalled == index_pc \in {"poll", "done", "IndexError"}

\* C11: in index, the list handed to poll_system holds exactly one
\* candidate per accepted triplet entry, in the order of the entries, and
\* every candidate is the fundamental-zone reduction of a matrix built from
\* its entry; the poller compares these candidates and nothing else.
C11_CandidatesAreReduced ==
    PollCalled =>
        /\ Len(g_indexation) = Len(OP_indexed)
        /\ Len(g_list) = Len(g_indexation)
        /\ \A n \in 1..Len(g_indexation) :
              g_indexation[n] \in
                  {move_rotation_to_FZ(m) : m \in EntryMatrices(OP_indexed[n])}
        /\ \A m, n \in 1..Len(g_indexation) :
              g_indexation[m] = g_indexation[n] => g_list[m] = g_list[n]

C11_Witness ==
    /\ index_pc = "done"
    /\ Len(g_indexation) >= 2
    /\ \E m, n \in 1..Len(g_indexation) : g_indexation[m] # g_indexation[n]

SecondRunOver == run = 2 /\ poll_pc \in {"done", "IndexError"}

\* C12: a second call of poll_system on the same list, in the same order
\* and with the same tolerance, ends as the first did, with the same
\* winning matrices, the same vote count and the same confidence index;
\* no call changes the candidate list.
C12_PollTwiceSameResult ==
    /\ [](SecondRunOver =>
            /\ poll_pc = first_run.outcome
            /\ final_orientation_matrix = first_run.final_orientation_matrix
            /\ result_vote = first_run.result_vote
            /\ ci = first_run.ci)
    /\ [][g_list' = g_list /\ dis_tol' = dis_tol]_vars

C12_Witness ==
    /\ run = 2
    /\ poll_pc = "done"
    /\ Len(votes) >= 3
    /\ ci[1] > 0
    /\ ci = first_run.ci

DvOver == dv_pc \in {"return", "AssertionError"}

C15_MismatchRaises ==
    DvOver =>
        /\ (~BelowMinTheta(theta, min_theta)
                /\ (theta - bragg_angle >= 1 \/ bragg_angle - theta >= 1))
              => (dv_pc = "AssertionError" /\ K = [kind |-> "unset"])
        /\ K = DiffractedK => theta = bragg_angle

C15_Witness ==
    /\ dv_pc = "AssertionError"
    /\ bragg_angle - theta = 1

\* The position (1-based) in scat_data of the row the atomic factor is
\* read from.
RowUsed == IF index < 0 THEN Len(scat_data) + index + 1 ELSE index + 1

RowsBelow == {k \in 1..Len(scat_data) : scat_data[k].q < q}

\* C19: the row used for the atomic factor is the row with the largest
\* tabulated q strictly below the query, and the first row when no
\* tabulated q is below the query.
C19_RowIsLargestBelow ==
    di_pc = "return" =>
        IF RowsBelow = {} THEN RowUsed = 1
        ELSE /\ RowUsed \in RowsBelow
             /\ \A k \in RowsBelow : k <= RowUsed

\* C19 as the code has it: the row used is the first row whose tabulated q
\* is not below the query (so the first row when none is below), and the
\* last row when every tabulated q is below the query; the intensity is I0
\* times that row's factor over the first row's factor.
C19_RowIsFirstNotBelow ==
    di_pc = "return" =>
        /\ IF RowsBelow = 1..Len(scat_data) THEN RowUsed = Len(scat_data)
           ELSE /\ RowUsed \notin RowsBelow
                /\ \A k \in 1..(RowUsed - 1) : k \in RowsBelow
        /\ I = <<I0 * scat_data[RowUsed].f, scat_data[1].f>>

C19_Witness ==
    /\ di_pc = "return"
    /\ RowsBelow # {}
    /\ RowUsed \notin RowsBelow
    /\ scat_data[RowUsed].q > q
    /\ scat_data[RowUsed].f # scat_data[RowUsed - 1].f

\* Point k of data lies on the axis of the projection: r = 0.
OnProjectionAxis(k) ==
    IF OC = <<>> THEN data[k][2] = 0 /\ data[k][3] = 0
    ELSE data[k][2] = OC[2] /\ data[k][3] = OC[3]

\* C17: for a point with r = 0 the projections of points return a defined
\* degenerate row (no component is the NaN of a division of 0 by 0).
C17_AxisPointIsDefined ==
    gp_pc = "return" =>
        \A k \in 1..Len(data) :
            OnProjectionAxis(k) => data_gp[k].y # NaN /\ data_gp[k].z # NaN

\* C18: with a projection center OC, row i of the result of
\* gnomonic_projection_point2 is the off-axis projection of point i alone
\* and keeps the first component of point i.
C18_RowIsProjectionOfItsPoint ==
    (gp_pc = "return" /\ OC # <<>>) =>
        \A k \in 1..Len(data) :
            data_gp[k] = [x |-> data[k][1], y |-> OffAxis(data[k], OC, 1),
                          z |-> OffAxis(data[k], OC, 2)]

\* C16: gnomonic_projection returns normally for every image and every
\* reference position, with every projected pixel inside the gnomonic
\* image after the clamping steps: 0 <= u < size[0] and 0 <= v < size[1].
C16_ClampedAndReturns ==
    gnom_pc # "call" =>
        /\ gnom_pc = "return"
        /\ \A k \in 1..Len(ug_px) :
              /\ ~ug_px[k].nan /\ 0 <= ug_px[k].v /\ ug_px[k].v < GnomSize
              /\ ~vg_px[k].nan /\ 0 <= vg_px[k].v /\ vg_px[k].v < GnomSize

\* C13: compute_Laue_pattern never returns an image when color_field is
\* none of 'constant', 'energy', 'intensity', whatever the plane list.
C13_UnsupportedColorFieldFails ==
    clp_pc = "return" => color_field \in {"constant", "energy", "intensity"}

\* The planes of the list whose spot was added to the image.
StampedPlanes ==
    {k \in 1..Len(hkl_planes) :
        /\ ~OutsideSpectrum(hkl_planes[k], spectrum)
        /\ hkl_planes[k].theta \notin {-1000, 1000}
        /\ ~hkl_planes[k].Kx_zero}

Covering(px) ==
    {k \in StampedPlanes :
        px - hkl_planes[k].u <= r_spot /\ hkl_planes[k].u - px <= r_spot}

RECURSIVE EnergySum(_)
EnergySum(S) ==
    IF S = {} THEN 0
    ELSE LET k == CHOOSE x \in S : TRUE
             e == hkl_planes[k].the_energy
         IN (IF e < 0 THEN -e ELSE e) + EnergySum(S \ {k})

EnergyRendered == clp_pc = "return" /\ color_field = "energy"

\* C20: with color_field = 'energy', every pixel covered by a stamped spot
\* holds the absolute energy of the reflection stamped there, also where
\* the spots of several reflections overlap.
C20_PixelIsEnergyOfEachSpot ==
    EnergyRendered =>
        \A px \in 0..(DetSize - 1) : \A k \in Covering(px) :
            detector_data[px] = EnergySum({k})

\* C20 with additive stamps: every pixel holds the sum of the absolute
\* energies of the reflections whose spot covers it, so the energy of the
\* reflection where one spot covers it, and never max_val per spot.
C20_PixelIsSumOfEnergies ==
    EnergyRendered =>
        \A px \in 0..(DetSize - 1) :
            detector_data[px] = EnergySum(Covering(px))

C20_Witness ==
    /\ EnergyRendered
    /\ \E px \in 0..(DetSize - 1) : Cardinality(Covering(px)) = 2
    /\ \E px \in 0..(DetSize - 1) : Cardinality(Covering(px)) = 1

\* The hkl_list of accepted combination n.
EntryHklList(n) ==
    HklList(angles_th, OP_rows[n][1], OP_rows[n][2], OP_rows[n][3])

\* C21: no entry is appended for a combination with 3 distinct plane
\* indices whose rows for (ti, tj) and (tj, tk) share both plane indices
\* (more than one pivot possible) or share none (no branch matches).
C21_AmbiguousCombinationsSkipped ==
    \A n \in 1..Len(OP_rows) :
        LET mp == MatchedPairs(OP_rows[n])
        IN Cardinality(mp[1] \cap mp[2]) = 1

\* C27: whenever identify_hkl_from_list is called, one of its four
\* branches is taken: index never stops on an unbound ids, and every
\* entry carries three planes read from its own hkl_list.
C27_IdsAlwaysAssigned ==
    /\ index_pc # "UnboundLocalError"
    /\ \A n \in 1..Len(OP_indexed) :
          LET hl == EntryHklList(n) IN
          /\ Len(OP_indexed[n]) = 6
          /\ \/ hl[2] = hl[3]
             \/ hl[2] = hl[4]
             \/ hl[1] = hl[3]
             \/ hl[1] = hl[4]
          /\ \A m \in 4..6 : OP_indexed[n][m] \in {hl[1], hl[2], hl[3], hl[4]}

C27_Witness ==
    /\ index_pc = "done"
    /\ \E n \in 1..Len(OP_indexed) :
          LET hl == EntryHklList(n) IN
          hl[2] # hl[3] /\ hl[2] # hl[4] /\ hl[1] # hl[3] /\ hl[1] = hl[4]
    /\ \E n \in 1..Len(OP_indexed) :
          LET hl == EntryHklList(n) IN hl[2] = hl[3]

\* C28: in every entry the planes given to the three spots (slots 3, 4, 5)
\* are pairwise distinct.
C28_EntryPlanesDistinct ==
    \A n \in 1..Len(OP_indexed) :
        Len(OP_indexed[n]) = 6 =>
            Cardinality({OP_indexed[n][m] : m \in 4..6}) = 3

\* C24: an entry is [tj, tk, ti, P(tj), P(tk), P(ti)] for a triplet
\* ti < tj < tk, P(tj) is a plane shared by the rows matched to (ti, tj)
\* and (tj, tk), and the one matrix index reduces and hands on for the
\* entry is transformation_matrix(P(ti), P(tj), spot ti, spot tj).
C24_EmittedMatrixPairing ==
    PollCalled =>
        \A n \in 1..Len(OP_indexed) :
            LET e == OP_indexed[n]
                hl == EntryHklList(n)
            IN /\ e[3] < e[1] /\ e[1] < e[2]
               /\ e[4] \in {hl[1], hl[2]} \cap {hl[3], hl[4]}
               /\ {e[4], e[6]} = {hl[1], hl[2]}
               /\ g_indexation[n].orientation_matrix =
                      [hkl_plane_1 |-> e[6], hkl_plane_2 |-> e[4],
                       xyz_normal_1 |-> e[3], xyz_normal_2 |-> e[1]]

C24_Witness ==
    /\ index_pc = "done"
    /\ Len(OP_indexed) >= 2
    /\ \E n \in 1..Len(OP_indexed) :
          Cardinality({OP_indexed[n][m] : m \in 4..6}) = 3

\* The poll loop has passed over every candidate of a non-empty list.
PollLoopOver ==
    /\ poll_pc = "loop"
    /\ index_pc = "idle"
    /\ run = 0
    /\ Len(g_list) >= 1
    /\ poll_i = Len(g_list)

\* The 0-based candidates whose vote_index is cluster j.
ClusterMembers(j) == {k \in 0..(Len(g_list) - 1) : At(vote_index, k) = j}

\* C29: after the loop of poll_system over N >= 1 candidates (tolerance
\* not negative), every candidate is in exactly one cluster, each vote is
\* the size of its cluster and at least 1, the votes sum to N, and the
\* seed of each cluster is its member of lowest index.
C29_ClustersPartitionCandidates ==
    PollLoopOver =>
        /\ Len(votes) = Len(solution_indices)
        /\ Len(vote_index) = Len(g_list)
        /\ \A k \in 0..(Len(g_list) - 1) :
              At(vote_index, k) \in 0..(Len(solution_indices) - 1)
        /\ SumSeq(votes) = Len(g_list)
        /\ \A j \in 0..(Len(solution_indices) - 1) :
              /\ At(votes, j) = Cardinality(ClusterMembers(j))
              /\ At(votes, j) >= 1
              /\ At(solution_indices, j) \in ClusterMembers(j)
              /\ \A k \in ClusterMembers(j) : At(solution_indices, j) <= k

C29_Witness ==
    /\ PollLoopOver
    /\ Len(solution_indices) >= 2
    /\ \E j \in 0..(Len(solution_indices) - 1) : At(votes, j) >= 2
    /\ \E j \in 1..(Len(solution_indices) - 1) : At(votes, j) >= 2

\* Both calls of the two-order poll have returned.
PermRunsOver == run = 2 /\ poll_pc = "done" /\ "g_list" \in DOMAIN first_run

\* Being within tolerance is transitive on the candidates of gl.
ToleranceTransitive(gl, tol) ==
    \A a, b, c \in 1..Len(gl) :
        (MisorientationAngle(gl[a], gl[b]) <= tol
            /\ MisorientationAngle(gl[b], gl[c]) <= tol)
        => MisorientationAngle(gl[a], gl[c]) <= tol

\* Every winner of ws1 is within tolerance of a winner of ws2.
WinnersWithin(ws1, ws2, tol) ==
    \A a \in 1..Len(ws1) : \E b \in 1..Len(ws2) :
        MisorientationAngle(ws1[a], ws2[b]) <= tol

\* The two calls agree on the maximum vote, the confidence index and,
\* up to the tolerance, the winning orientations.
SameOutcome ==
    /\ result_vote = first_run.result_vote
    /\ ci = first_run.ci
    /\ Len(final_orientation_matrix) = Len(first_run.final_orientation_matrix)
    /\ WinnersWithin(final_orientation_matrix,
                     first_run.final_orientation_matrix, dis_tol)
    /\ WinnersWithin(first_run.final_orientation_matrix,
                     final_orientation_matrix, dis_tol)

\* C23: poll_system depends on the order of its candidates: there are a
\* list, a tolerance and a reordering for which the maximum vote, the
\* confidence index and the winners differ (the witness); the two orders
\* can disagree only on a list where being within tolerance is not
\* transitive.
C23_OrderMattersWithoutTransitivity ==
    (PermRunsOver /\ ~SameOutcome) => ~ToleranceTransitive(g_list, dis_tol)

C23_Witness ==
    /\ PermRunsOver
    /\ result_vote # first_run.result_vote
    /\ ci # first_run.ci
    /\ final_orientation_matrix # first_run.final_orientation_matrix
    /\ Len(g_list) = 3

\* C22 (as claimed): once an experiment has a detector, whatever the
\* set_as_active arguments were, active_detector_id is a valid
\* non-negative index into detectors (0 after the first add_detector).
C22_ActiveDetectorIdValid ==
    Len(detectors) >= 1 =>
        /\ active_detector_id \in 0..(Len(detectors) - 1)
        /\ (Len(detectors) = 1 => active_detector_id = 0)

\* C30: a forward_simulation whose sim_type is neither 'laue' nor 'dct'
\* returns None, runs no simulation routine, and leaves the detectors
\* (their data), the active detector id and the experiment attached to
\* the simulation as they were, whatever set_result_to_detector is.
C30_WrongTypeChangesNothing ==
    [][(/\ exp_call'.op = "forward_simulation"
        /\ exp_call'.sim_type \notin {"laue", "dct"})
       => /\ exp_call'.ret = "None"
          /\ exp_call'.ran = "none"
          /\ detectors' = detectors
          /\ active_detector_id' = active_detector_id
          /\ fs_exp' = fs_exp]_vars

C30_Witness ==
    /\ exp_call.op = "forward_simulation"
    /\ exp_call.sim_type = "other"
    /\ exp_call.flag
    /\ exp_call.ret = "None"
    /\ Len(detectors) >= 1
    /\ active_detector_id >= 0
    /\ detectors[active_detector_id + 1] = "blank"
    /\ fs_exp = "own"

\* C25 (as claimed): after set_energy_range a negative min energy is
\* stored as 0, a max energy not larger than the stored min is stored as
\* that min (the value the message prints), and 0 <= min <= max.
C25_EnergyRangeOrdered ==
    (energy_call # <<>> /\ energy_call.op = "set_energy_range") =>
        /\ min_energy = <<ClampedMinEnergy(energy_call.args[1])>>
        /\ 0 <= min_energy[1]
        /\ min_energy[1] <= max_energy[1]
        /\ (energy_call.printed # <<>> => max_energy = energy_call.printed)

\* The sequence s lists exactly the triples of S, each once, in
\* lexicographic order.
ListsInOrder(s, S) ==
    /\ {s[n] : n \in 1..Len(s)} = S
    /\ \A a, b \in 1..Len(s) : a < b => LexLess(s[a], s[b])

NonZeroTriples(m) ==
    {t \in Indices(m) \X Indices(m) \X Indices(m) : t # <<0, 0, 0>>}

\* C26: build_list with extinction 'BCC' returns exactly the non-zero
\* (h, k, l) with every index in -m..m and h + k + l even, each once and in
\* lexicographic order; without extinction it returns all the
\* (2m+1)^3 - 1 non-zero triples.
C26_BccListIsEvenSumTriples ==
    build_pc = "done" =>
        /\ (extinction = "BCC" =>
               ListsInOrder(hklplanes,
                   {t \in NonZeroTriples(max_miller) :
                       (t[1] + t[2] + t[3]) % 2 = 0}))
        /\ (extinction = "None" =>
               /\ ListsInOrder(hklplanes, NonZeroTriples(max_miller))
               /\ Len(hklplanes) =
                      (2 * max_miller + 1) * (2 * max_miller + 1)
                          * (2 * max_miller + 1) - 1)

C26_Witness ==
    /\ build_pc = "done"
    /\ extinction = "BCC"
    /\ max_miller >= 2
    /\ \E n \in 1..Len(hklplanes) : hklplanes[n] = <<-1, 0, 1>>
    /\ \E n \in 1..Len(hklplanes) : hklplanes[n] = <<-2, -1, 1>>

=============================================================================
